---- MODULE Spec2Model ----
(***************************************************************************)
(* A model of the gitconfig library: the line parser (Parser), the value   *)
(* store (Config), the serializer (String) and the binder (Load).          *)
(*                                                                         *)
(* A Go string is a sequence of one-character strings.  All characters of  *)
(* the model are ASCII, so a byte offset and a rune count agree.           *)
(***************************************************************************)
EXTENDS Integers, Sequences, FiniteSets, TLC

VARIABLES
    input,      \* the physical lines given to NewConfigFromString
    p,          \* the Parser: Reader, lineNo, charPos, curLine, section, subSection, Config
    pc,         \* "reading" (inside Parser.Read), "ready" (a store was returned), "failed"
    ret,        \* what NewConfigFromString returned: [cfg, err]
    log,        \* history: every key assignment made so far, in order
    nOps,       \* number of API calls made on the store
    last        \* the last API call on the store: its arguments and its results

vars == <<input, p, pc, ret, log, nOps, last>>

-----------------------------------------------------------------------------
(* Characters and strings *)

TAB == "\t"
NL == "\n"
SPC == " "
DQ == "\""
BS == "\\"

\* unicode.IsSpace, on the characters of the model
IsSpace(r) == r \in {SPC, TAB, NL, "\r"}

UpperLetters == {"A", "B", "C", "K", "S", "X"}
LowerLetters == {"a", "b", "c", "e", "f", "h", "k", "l", "m", "n", "o", "r",
                 "s", "t", "u", "x", "y"}

\* unicode.IsLetter, on the characters of the model
IsLetter(r) == r \in UpperLetters \cup LowerLetters

\* unicode.IsDigit, on the characters of the model
IsDigit(r) == r \in {"0", "1", "2", "3", "4", "5", "6", "7", "8", "9"}

LowerChar(r) ==
    CASE r = "A" -> "a" [] r = "B" -> "b" [] r = "C" -> "c"
      [] r = "K" -> "k" [] r = "S" -> "s" [] r = "X" -> "x"
      [] OTHER -> r

\* strings.ToLower
ToLower(s) == [i \in 1..Len(s) |-> LowerChar(s[i])]

\* the Go slice s[from:] with a 0-based offset
SliceFrom(s, from) == SubSeq(s, from + 1, Len(s))

RECURSIVE SplitAt(_, _, _)
SplitAt(s, sep, cur) ==
    IF s = <<>> THEN <<cur>>
    ELSE IF Head(s) = sep THEN <<cur>> \o SplitAt(Tail(s), sep, <<>>)
    ELSE SplitAt(Tail(s), sep, Append(cur, Head(s)))

\* strings.Split(s, sep) for a one-character separator
Split(s, sep) == SplitAt(s, sep, <<>>)

RECURSIVE Join(_, _)
\* strings.Join(parts, sep)
Join(parts, sep) ==
    IF parts = <<>> THEN <<>>
    ELSE IF Len(parts) = 1 THEN parts[1]
    ELSE parts[1] \o <<sep>> \o Join(Tail(parts), sep)

\* strings.HasSuffix
HasSuffix(s, suffix) ==
    Len(s) >= Len(suffix) /\ SubSeq(s, Len(s) - Len(suffix) + 1, Len(s)) = suffix

\* where substr starts in s: every 1-based position of an occurrence
Occurrences(s, substr) ==
    {i \in 1..(Len(s) - Len(substr) + 1) : SubSeq(s, i, i + Len(substr) - 1) = substr}

\* strings.Index, 1-based: where substr first starts in s, 0 when it is not in s
Index(s, substr) ==
    IF Occurrences(s, substr) = {} THEN 0
    ELSE CHOOSE i \in Occurrences(s, substr) : \A j \in Occurrences(s, substr) : i <= j

\* strings.Contains
Contains(s, substr) == Index(s, substr) # 0

RECURSIVE SplitSep(_, _)
\* strings.Split(s, sep) for a separator of one character or more
SplitSep(s, sep) ==
    IF ~Contains(s, sep) THEN <<s>>
    ELSE <<SubSeq(s, 1, Index(s, sep) - 1)>>
            \o SplitSep(SubSeq(s, Index(s, sep) + Len(sep), Len(s)), sep)

-----------------------------------------------------------------------------
(* The value store: Config, ConfigSection, ConfigSubSection, ConfigValue *)

\* a *string: nil, or a pointer to a string
NilStr == [nil |-> TRUE, str |-> <<>>]
Ptr(s) == [nil |-> FALSE, str |-> s]

EmptyMap == [x \in {} |-> x]

\* NewConfig()
NewConfig == [Sections |-> EmptyMap, BaseValues |-> EmptyMap]

\* where a value set lives: Config.BaseValues, a section's Values, a subsection's Values
BaseScope == [kind |-> "base", sec |-> <<>>, sub |-> <<>>]
SectionScope(slc) == [kind |-> "section", sec |-> slc, sub |-> <<>>]
SubScope(slc, ss) == [kind |-> "sub", sec |-> slc, sub |-> ss]
NoScope == [kind |-> "nil", sec |-> <<>>, sub |-> <<>>]

\* the ConfigSection GetSection creates
NewSection(slc, section) ==
    [Name |-> slc, OrigCaseName |-> section, SubSections |-> EmptyMap,
     Values |-> EmptyMap]

\* Config.GetSection, with slc := strings.ToLower(section) done
GetSectionLc(cfg, slc, section, createEmpty) ==
    IF slc \in DOMAIN cfg.Sections \/ ~createEmpty THEN cfg
    ELSE [cfg EXCEPT !.Sections = (slc :> NewSection(slc, section)) @@ @]

\* Config.GetSection: the store after the call (the section is created when
\* createEmpty is set and it was not there); the section returned is
\* Sections[slc], nil when slc is not a key of Sections
GetSection(cfg, section, createEmpty) ==
    GetSectionLc(cfg, ToLower(section), section, createEmpty)

\* Config.GetSubSection, with s := self.GetSection(section, createEmpty) done
GetSubSectionIn(c1, slc, subSection, createEmpty) ==
    IF slc \notin DOMAIN c1.Sections THEN c1
    ELSE IF subSection \in DOMAIN c1.Sections[slc].SubSections \/ ~createEmpty THEN c1
    ELSE [c1 EXCEPT !.Sections[slc].SubSections =
            (subSection :> [Name |-> subSection, Values |-> EmptyMap]) @@ @]

\* Config.GetSubSection: the store after the call
GetSubSection(cfg, section, subSection, createEmpty) ==
    GetSubSectionIn(GetSection(cfg, section, createEmpty), ToLower(section),
                    subSection, createEmpty)

\* is there a value set at this scope?
HasScope(cfg, scope) ==
    CASE scope.kind = "base" -> TRUE
      [] scope.kind = "section" -> scope.sec \in DOMAIN cfg.Sections
      [] scope.kind = "sub" ->
            /\ scope.sec \in DOMAIN cfg.Sections
            /\ scope.sub \in DOMAIN cfg.Sections[scope.sec].SubSections
      [] OTHER -> FALSE

\* GetConfigValueSet, its returns: nil, or a pointer to the value set
ValueSetPtr(c1, scope) ==
    [cfg |-> c1, scope |-> IF HasScope(c1, scope) THEN scope ELSE NoScope]

\* Config.GetConfigValueSet: the store after the call and the value set it
\* returns a pointer to (NoScope for nil)
GetConfigValueSet(cfg, section, subSection, createEmpty) ==
    IF section = <<>> THEN ValueSetPtr(cfg, BaseScope)
    ELSE IF subSection = <<>>
    THEN ValueSetPtr(GetSection(cfg, section, createEmpty),
                     SectionScope(ToLower(section)))
    ELSE ValueSetPtr(GetSubSection(cfg, section, subSection, createEmpty),
                     SubScope(ToLower(section), subSection))

\* the ConfigValueSet a scope points to
ValueSetAt(cfg, scope) ==
    CASE scope.kind = "base" -> cfg.BaseValues
      [] scope.kind = "section" -> cfg.Sections[scope.sec].Values
      [] scope.kind = "sub" -> cfg.Sections[scope.sec].SubSections[scope.sub].Values
      [] OTHER -> EmptyMap

\* the store with the ConfigValueSet of a scope replaced
WithValueSet(cfg, scope, vs) ==
    CASE scope.kind = "base" -> [cfg EXCEPT !.BaseValues = vs]
      [] scope.kind = "section" -> [cfg EXCEPT !.Sections[scope.sec].Values = vs]
      [] scope.kind = "sub" ->
            [cfg EXCEPT !.Sections[scope.sec].SubSections[scope.sub].Values = vs]
      [] OTHER -> cfg

\* the key a ConfigValueSet stores an entry under
EntryKey(key) == ToLower(key)

\* the ConfigValue GetConfigValues creates
NewConfigValue(lcKey, key) == [Name |-> lcKey, OrigCaseName |-> key, Value |-> <<>>]

\* GetConfigValues if an entry took the spelling of the key of every call that
\* creates when there is none
SetGetConfigValuesRenaming(vs, lcKey, key, createEmpty) ==
    IF ~createEmpty THEN vs
    ELSE IF lcKey \in DOMAIN vs THEN [vs EXCEPT ![lcKey].OrigCaseName = key]
    ELSE (lcKey :> NewConfigValue(lcKey, key)) @@ vs

\* ConfigValueSet.GetConfigValues, with lcKey := strings.ToLower(key) done
SetGetConfigValuesLc(vs, lcKey, key, createEmpty) ==
    IF lcKey \in DOMAIN vs \/ ~createEmpty THEN vs
    ELSE (lcKey :> NewConfigValue(lcKey, key)) @@ vs

\* ConfigValueSet.GetConfigValues: the value set after the call; the entry
\* returned is the one under the lower-case key, nil when there is none
SetGetConfigValues(vs, key, createEmpty) ==
    SetGetConfigValuesLc(vs, EntryKey(key), key, createEmpty)

\* a *ConfigValue: nil, or the entry of a value set
NilRef == [found |-> FALSE, scope |-> NoScope, key |-> <<>>]

\* the entry of a value set, as a *ConfigValue
EntryPtr(cfg, scope, vs, lcKey) ==
    [cfg |-> WithValueSet(cfg, scope, vs),
     ref |-> IF lcKey \in DOMAIN vs
             THEN [found |-> TRUE, scope |-> scope, key |-> lcKey]
             ELSE NilRef]

\* Config.GetConfigValues, with valSet := self.GetConfigValueSet(...) done
GetConfigValuesIn(vsr, key, createEmpty) ==
    IF vsr.scope.kind = "nil" THEN [cfg |-> vsr.cfg, ref |-> NilRef]
    ELSE EntryPtr(vsr.cfg, vsr.scope,
                  SetGetConfigValues(ValueSetAt(vsr.cfg, vsr.scope), key, createEmpty),
                  EntryKey(key))

\* Config.GetConfigValues: the store after the call and the entry returned
GetConfigValues(cfg, section, subSection, key, createEmpty) ==
    GetConfigValuesIn(GetConfigValueSet(cfg, section, subSection, createEmpty),
                      key, createEmpty)

\* the ConfigValue a non-nil reference points to
Deref(cfg, ref) == ValueSetAt(cfg, ref.scope)[ref.key]

\* an assignment that puts the new value first
PrependValue(values, value) == <<value>> \o values

\* the append of AddKeyValue
AppendValue(values, value) == Append(values, value)

\* AddKeyValue, with cvs := self.GetConfigValues(..., true) done
AddKeyValueAt(cfg, ref, value) ==
    WithValueSet(cfg, ref.scope,
        [ValueSetAt(cfg, ref.scope) EXCEPT ![ref.key].Value = AppendValue(@, value)])

\* AddKeyValue, on what GetConfigValues returned
AddKeyValueTo(r, value) == AddKeyValueAt(r.cfg, r.ref, value)

\* Config.AddKeyValue
AddKeyValue(cfg, section, subSection, key, value) ==
    AddKeyValueTo(GetConfigValues(cfg, section, subSection, key, TRUE), value)

-----------------------------------------------------------------------------
(* Parse errors *)

NoErr == [Message |-> "", Line |-> <<>>, LineNo |-> 0, CharPos |-> 0]

\* makeError if it reported the offset of the character, counted from 0
makeErrorFromZero(q, reason) ==
    [Message |-> reason, Line |-> q.curLine, LineNo |-> q.lineNo, CharPos |-> q.charPos - 1]

\* Parser.makeError
makeError(q, reason) ==
    [Message |-> reason, Line |-> q.curLine, LineNo |-> q.lineNo, CharPos |-> q.charPos]

-----------------------------------------------------------------------------
(* The Parser.  q is the Parser struct; q.lines is what its Reader has not   *)
(* yet scanned, and q.assigned records its AddKeyValue calls (history).      *)

NewParser(lines) ==
    [lines |-> lines, Config |-> NewConfig, lineNo |-> 0, charPos |-> 0,
     curLine |-> <<>>, section |-> <<>>, subSection |-> <<>>,
     assigned |-> <<>>, depth |-> 0, maxDepth |-> 0]

\* Parser.ReadLine
ReadLine(q) ==
    IF q.lines = <<>> THEN [ok |-> FALSE, p |-> q]
    ELSE [ok |-> TRUE,
          p |-> [q EXCEPT !.lineNo = @ + 1, !.charPos = 0,
                          !.curLine = Head(q.lines), !.lines = Tail(q.lines)]]

\* Parser.GetCurLine
GetCurLine(q) ==
    IF q.charPos >= Len(q.curLine) THEN <<>> ELSE SliceFrom(q.curLine, q.charPos)

\* the Parser after self.Config.AddKeyValue(self.section, self.subSection, key, value)
ParserAdd(q, key, value) ==
    [q EXCEPT !.Config = AddKeyValue(@, q.section, q.subSection, key, value),
              !.assigned = Append(@, [sec |-> q.section, sub |-> q.subSection,
                                      key |-> key, value |-> value,
                                      lineNo |-> q.lineNo])]

\* self.charPos++ at the top of a loop body; st holds the Parser (st.p) and the
\* locals of the function that runs the loop
Advance(st) == [st EXCEPT !.p.charPos = @ + 1]

\* return self.makeError(reason) from inside a loop
Fail(st, reason) == [st EXCEPT !.done = TRUE, !.err = makeError(st.p, reason)]

\* return nil from inside a loop
Stop(st) == [st EXCEPT !.done = TRUE]

\* a comment character ending the value inside quotes too
EndsValueInQuotes(r, quoted) == r \in {";", "#"}

\* readValue: does this character end the value as a comment?
EndsValue(r, quoted) == ~quoted /\ r \in {";", "#"}

\* the buffered whitespace dropped
DropSpace(value, spaceRun) == value

\* readValue: the buffered whitespace goes into the value before a further character
FlushSpace(value, spaceRun) == value \o spaceRun

\* readValue: the character an escape stands for ("" for an unrecognised one)
EscapeChar(r) ==
    CASE r = DQ -> DQ [] r = "t" -> TAB [] r = "n" -> NL [] r = BS -> BS [] OTHER -> ""

\* readValue: the value of a continued line
JoinContinued(value, next) == value \o next

\* the scan of the next line starting as the scan of a value's first line does
ContinueArgsFresh(hadNonWhiteSpace, spaceRun) ==
    [hadNonWhiteSpace |-> FALSE, spaceRun |-> <<>>]

\* readValue: what the scan of the next line starts from
ContinueArgs(hadNonWhiteSpace, spaceRun) ==
    [hadNonWhiteSpace |-> hadNonWhiteSpace, spaceRun |-> spaceRun]

\* readValue, the loop body from hadNonWhiteSpace = true on
ValueNonSpace(st, r) ==
    IF r \in {";", "#"} THEN [st EXCEPT !.value = Append(@, r)]
    ELSE IF st.inEscape THEN
        IF EscapeChar(r) = "" THEN Fail(st, "Unexpected character in escape")
        ELSE [st EXCEPT !.inEscape = FALSE, !.value = Append(@, EscapeChar(r))]
    ELSE IF r = DQ THEN [st EXCEPT !.quoted = ~@]
    ELSE [st EXCEPT !.value = Append(@, r)]

\* readValue, the loop body: hadNonWhiteSpace = true and the flush of spaceRun
ValueFlushed(st) ==
    [st EXCEPT !.hadNonWhiteSpace = TRUE,
               !.value = IF st.spaceRun # <<>> THEN FlushSpace(@, st.spaceRun) ELSE @,
               !.spaceRun = <<>>]

\* readValue, the loop body for one character
ValueChar(st, r) ==
    IF IsSpace(r) THEN
        IF st.hadNonWhiteSpace THEN [st EXCEPT !.spaceRun = Append(@, r)] ELSE st
    ELSE IF r = BS /\ ~st.inEscape THEN [st EXCEPT !.inEscape = TRUE]
    ELSE IF EndsValue(r, st.quoted) THEN Stop(st)
    ELSE ValueNonSpace(ValueFlushed(st), r)

RECURSIVE readValueScan(_, _, _)
\* readValue, the loop over the characters of the line
readValueScan(st, text, i) ==
    IF st.done \/ i > Len(text) THEN st
    ELSE readValueScan(ValueChar(Advance(st), text[i]), text, i + 1)

\* the Parser entering, and leaving, a recursive readValue (history: depth)
Deeper(q) ==
    [q EXCEPT !.depth = @ + 1,
              !.maxDepth = IF q.depth + 1 > @ THEN q.depth + 1 ELSE @]
Shallower(q) == [q EXCEPT !.depth = @ - 1]

\* readValue, the two returns after the recursive call
ValueContinued(st, nx) ==
    IF nx.err # NoErr
    THEN [st EXCEPT !.p = Shallower(nx.p), !.err = nx.err]
    ELSE [st EXCEPT !.p = Shallower(nx.p), !.value = JoinContinued(@, nx.value)]

RECURSIVE readValue(_, _, _)

\* readValue if the line that continues the value were left to the Reader, to
\* be scanned again
ValueNextLinePeeked(st, rl, a) ==
    IF rl.ok
    THEN [ValueContinued(st, readValue(Deeper(rl.p), a.hadNonWhiteSpace, a.spaceRun))
            EXCEPT !.p.lines = st.p.lines]
    ELSE [st EXCEPT !.p = rl.p]

\* readValue, a line that ended inside an escape: if self.ReadLine() { ... }
ValueNextLine(st, rl, a) ==
    IF rl.ok
    THEN ValueContinued(st, readValue(Deeper(rl.p), a.hadNonWhiteSpace, a.spaceRun))
    ELSE [st EXCEPT !.p = rl.p]

\* readValue, after the loop
ValueEnd(st) ==
    IF st.done THEN st
    ELSE IF st.quoted THEN Fail(st, "Unexpected newline in quoted value string")
    ELSE IF st.inEscape
         THEN ValueNextLine(st, ReadLine(st.p),
                            ContinueArgs(st.hadNonWhiteSpace, st.spaceRun))
    ELSE st

\* Parser.readValue: the record it leaves has the Parser (p), the value and the error
readValue(q, hadNonWhiteSpace, spaceRun) ==
    ValueEnd(readValueScan(
        [p |-> q, inEscape |-> FALSE, value |-> <<>>, quoted |-> FALSE,
         hadNonWhiteSpace |-> hadNonWhiteSpace, spaceRun |-> spaceRun,
         done |-> FALSE, err |-> NoErr],
        GetCurLine(q), 1))

\* readKeyValue: may this character stand in a key? (first: no key character yet)
KeyCharError(r, first) ==
    IF IsLetter(r) THEN ""
    ELSE IF first THEN "Unexpected character starting key, expected a letter"
    ELSE IF r # "-" /\ ~IsDigit(r)
         THEN "Unexpected character in key, expected a ascii letter, hyphen or digit"
    ELSE ""

\* readKeyValue, the loop body for one character
KeyChar(st, r) ==
    IF IsSpace(r) THEN
        IF st.hadNonWhiteSpace THEN [st EXCEPT !.doneKey = TRUE] ELSE st
    ELSE IF r = "=" THEN [st EXCEPT !.done = TRUE, !.sawEq = TRUE]
    ELSE IF st.doneKey THEN Fail(st, "Unexpected character after key")
    ELSE IF KeyCharError(r, ~st.hadNonWhiteSpace) # ""
         THEN Fail(st, KeyCharError(r, ~st.hadNonWhiteSpace))
    ELSE [st EXCEPT !.hadNonWhiteSpace = TRUE, !.key = Append(@, r)]

RECURSIVE readKeyValueScan(_, _, _)
\* readKeyValue, the loop over the characters of the line
readKeyValueScan(st, text, i) ==
    IF st.done \/ i > Len(text) THEN st
    ELSE readKeyValueScan(KeyChar(Advance(st), text[i]), text, i + 1)

\* readKeyValue at '=': the value is read and the pair is added
KeyValueRead(st, rv) ==
    IF rv.err # NoErr THEN [p |-> rv.p, err |-> rv.err]
    ELSE [p |-> ParserAdd(rv.p, st.key, Ptr(rv.value)), err |-> NoErr]

\* readKeyValue, how the loop was left
KeyValueEnd(st) ==
    IF st.err # NoErr THEN [p |-> st.p, err |-> st.err]
    ELSE IF st.sawEq THEN KeyValueRead(st, readValue(st.p, FALSE, <<>>))
    ELSE IF st.key # <<>> THEN [p |-> ParserAdd(st.p, st.key, NilStr), err |-> NoErr]
    ELSE [p |-> st.p, err |-> NoErr]

\* Parser.readKeyValue
readKeyValue(q) ==
    KeyValueEnd(readKeyValueScan(
        [p |-> q, hadNonWhiteSpace |-> FALSE, doneKey |-> FALSE, key |-> <<>>,
         sawEq |-> FALSE, done |-> FALSE, err |-> NoErr],
        GetCurLine(q), 1))

\* readSubsection: what an escaped character adds to the subsection name
SubEscape(r) ==
    CASE r = DQ -> <<DQ>> [] r = "t" -> <<TAB>> [] r = "n" -> <<NL>>
      [] r = BS -> <<BS>> [] OTHER -> <<>>

\* readSubsection, the loop body for one character
SubsectionChar(st, r) ==
    IF st.inEscape
    THEN [st EXCEPT !.inEscape = FALSE, !.p.subSection = @ \o SubEscape(r)]
    ELSE IF IsSpace(r) THEN
        IF st.inSubSection THEN [st EXCEPT !.p.subSection = Append(@, r)] ELSE st
    ELSE IF r = DQ THEN
        IF st.inSubSection THEN Stop(st) ELSE [st EXCEPT !.inSubSection = TRUE]
    ELSE IF r = BS THEN [st EXCEPT !.inEscape = TRUE]
    ELSE [st EXCEPT !.p.subSection = Append(@, r)]

RECURSIVE readSubsectionScan(_, _, _)
\* readSubsection, the loop over the characters of the line
readSubsectionScan(st, text, i) ==
    IF st.done \/ i > Len(text) THEN st
    ELSE readSubsectionScan(SubsectionChar(Advance(st), text[i]), text, i + 1)

\* readSubsection, how the loop was left: the closing quote returns nil, the
\* end of the line is an error
SubsectionEnd(st) ==
    IF st.done THEN [p |-> st.p, err |-> NoErr]
    ELSE [p |-> st.p,
          err |-> makeError(st.p, "Unexpected end of line when reading subsection")]

\* Parser.readSubsection
readSubsection(q) ==
    SubsectionEnd(readSubsectionScan(
        [p |-> [q EXCEPT !.subSection = <<>>], inSubSection |-> FALSE,
         inEscape |-> FALSE, done |-> FALSE, err |-> NoErr],
        GetCurLine(q), 1))

\* readSection, the loop body for a double quote
SectionQuote(st) ==
    IF st.p.subSection = <<>> THEN
        IF st.p.section = <<>> THEN Fail(st, "Unexpected quote before section name")
        ELSE [st EXCEPT !.p.charPos = @ - 1, !.done = TRUE, !.call = "readSubsection"]
    ELSE Fail(st, "Unexpected quote in section name")

\* readSection, the loop body for one character
SectionChar(st, r) ==
    IF IsSpace(r) THEN st
    ELSE IF r \in {";", "#"} THEN
        IF st.inSection THEN Fail(st, "Unexpected comment in section name") ELSE Stop(st)
    ELSE IF r = "[" THEN
        IF st.p.section # <<>> \/ st.inSection THEN Fail(st, "Unexpected [ in section name")
        ELSE [st EXCEPT !.inSection = TRUE]
    ELSE IF r = "]" THEN
        IF ~st.inSection THEN Fail(st, "Unexpected ] in section name")
        ELSE [st EXCEPT !.done = TRUE, !.call = "readKeyValue"]
    ELSE IF r = DQ THEN SectionQuote(st)
    ELSE [st EXCEPT !.p.section = Append(@, r)]

RECURSIVE readSectionScan(_, _, _)
\* readSection, the loop over the characters of the line
readSectionScan(st, text, i) ==
    IF st.done \/ i > Len(text) THEN st
    ELSE readSectionScan(SectionChar(Advance(st), text[i]), text, i + 1)

\* readSection, how the loop was left: return self.readKeyValue(), return
\* self.readSubsection(), an error, or the end of the line
SectionEnd(st) ==
    IF st.call = "readKeyValue" THEN readKeyValue(st.p)
    ELSE IF st.call = "readSubsection" THEN readSubsection(st.p)
    ELSE IF st.done THEN [p |-> st.p, err |-> st.err]
    ELSE [p |-> st.p,
          err |-> makeError(st.p, "Unexpected end of line when reading section")]

\* readSection if it kept the subsection of the header before
readSectionKeepingSub(q) ==
    SectionEnd(readSectionScan(
        [p |-> [q EXCEPT !.section = <<>>],
         inSection |-> FALSE, call |-> "", done |-> FALSE, err |-> NoErr],
        GetCurLine(q), 1))

\* Parser.readSection
readSection(q) ==
    SectionEnd(readSectionScan(
        [p |-> [q EXCEPT !.section = <<>>, !.subSection = <<>>],
         inSection |-> FALSE, call |-> "", done |-> FALSE, err |-> NoErr],
        GetCurLine(q), 1))

\* readKeyOrSection, the loop body for one character.  hadNonWhiteSpace is set
\* only on the way out of the loop, so a whitespace character always continues.
KeyOrSectionChar(st, r) ==
    IF IsSpace(r) THEN st
    ELSE IF r \in {";", "#"} THEN Stop(st)
    ELSE [st EXCEPT !.p.charPos = @ - 1, !.done = TRUE,
                    !.call = IF r = "[" THEN "readSection" ELSE "readKeyValue"]

RECURSIVE readKeyOrSectionScan(_, _, _)
\* readKeyOrSection, the loop over the characters of the line
readKeyOrSectionScan(st, text, i) ==
    IF st.done \/ i > Len(text) THEN st
    ELSE readKeyOrSectionScan(KeyOrSectionChar(Advance(st), text[i]), text, i + 1)

\* readKeyOrSection, how the loop was left
KeyOrSectionEnd(st) ==
    IF st.call = "readSection" THEN readSection(st.p)
    ELSE IF st.call = "readKeyValue" THEN readKeyValue(st.p)
    ELSE [p |-> st.p, err |-> NoErr]

\* Parser.readKeyOrSection
readKeyOrSection(q) ==
    KeyOrSectionEnd(readKeyOrSectionScan(
        [p |-> q, call |-> "", done |-> FALSE, err |-> NoErr], GetCurLine(q), 1))

\* Parser.Read, one turn of its loop: what the loop does with the error of a line
ReadTurn(r) == IF r.err # NoErr THEN "return err" ELSE "next line"

\* Parser.Read, one turn of its loop: the Parser after it, the error of the
\* line, and whether the loop goes on
ReadOnceDone(r) == [p |-> r.p, err |-> r.err, more |-> ReadTurn(r) = "next line"]

\* Parser.Read, one turn of its loop, with self.ReadLine() done
ReadOnceLine(rl) ==
    IF ~rl.ok THEN [p |-> rl.p, err |-> NoErr, more |-> FALSE]
    ELSE IF rl.p.curLine = <<>> THEN [p |-> rl.p, err |-> NoErr, more |-> TRUE]
    ELSE ReadOnceDone(readKeyOrSection(rl.p))

\* Parser.Read, one turn of its loop
ReadOnce(q) == ReadOnceLine(ReadLine(q))

RECURSIVE Read(_)

\* Parser.Read, the loop going on or returning
ReadGoOn(r) == IF r.more THEN Read(r.p) ELSE [p |-> r.p, err |-> r.err]

\* Parser.Read, run to its end: the Parser it leaves and the error it returns
Read(q) == ReadGoOn(ReadOnce(q))

\* a *Config: nil, or a store
NilConfig == [nil |-> TRUE, c |-> NewConfig]
ConfigPtr(c) == [nil |-> FALSE, c |-> c]

\* NewConfigFromString returning the Parser's store next to the error
ReturnedWithStore(cfg, err) == [cfg |-> ConfigPtr(cfg), err |-> err]

\* NewConfigFromString, its two return statements
Returned(cfg, err) ==
    IF err # NoErr THEN [cfg |-> NilConfig, err |-> err]
    ELSE [cfg |-> ConfigPtr(cfg), err |-> NoErr]

\* NewConfigFromString, with err := p.Read() done
ReturnedFrom(r) == Returned(r.p.Config, r.err)

\* NewConfigFromString on the lines of its data
NewConfigFromLines(lines) == ReturnedFrom(Read(NewParser(lines)))

-----------------------------------------------------------------------------
(* Lookups *)

\* ParseSectionKey lowering the subsection as it lowers the section
ParseSectionKeyLowerSub(full_key) ==
    LET out == Split(full_key, ".")
        cnt == Len(out) IN
    IF cnt = 1 THEN [s |-> <<>>, ss |-> <<>>, k |-> ToLower(out[1])]
    ELSE [s |-> ToLower(out[1]), ss |-> ToLower(Join(SubSeq(out, 2, cnt - 1), ".")),
          k |-> ToLower(out[cnt])]

\* ParseSectionKey
ParseSectionKey(full_key) ==
    LET out == Split(full_key, ".")
        cnt == Len(out) IN
    CASE cnt = 1 -> [s |-> <<>>, ss |-> <<>>, k |-> ToLower(out[1])]
      [] cnt = 2 -> [s |-> ToLower(out[1]), ss |-> <<>>, k |-> ToLower(out[2])]
      [] cnt = 3 -> [s |-> ToLower(out[1]), ss |-> out[2], k |-> ToLower(out[3])]
      [] OTHER -> [s |-> ToLower(out[1]), ss |-> Join(SubSeq(out, 2, cnt - 1), "."),
                   k |-> ToLower(out[cnt])]

\* GetKeyValuesRaw if it passed createEmpty = true, as AddKeyValue does
GetKeyValuesRawCreating(cfg, sk) ==
    IF sk.k = <<>> THEN [cfg |-> cfg, ref |-> NilRef]
    ELSE GetConfigValues(cfg, sk.s, sk.ss, sk.k, TRUE)

\* GetKeyValuesRaw, with s, ss, k := ParseSectionKey(key) done
GetKeyValuesRawAt(cfg, sk) ==
    IF sk.k = <<>> THEN [cfg |-> cfg, ref |-> NilRef]
    ELSE GetConfigValues(cfg, sk.s, sk.ss, sk.k, FALSE)

\* Config.GetKeyValuesRaw: the store after the call and the entry returned
GetKeyValuesRaw(cfg, key) == GetKeyValuesRawAt(cfg, ParseSectionKey(key))

\* ConfigValue.ValuesAsStrings
ValuesAsStrings(cv) ==
    [i \in 1..Len(cv.Value) |-> IF cv.Value[i].nil THEN <<>> ELSE cv.Value[i].str]

\* ConfigValue.GetString, with out := self.ValuesAsStrings() done
LastString(out) ==
    IF Len(out) = 0 THEN [str |-> <<>>, exists |-> FALSE]
    ELSE [str |-> out[Len(out)], exists |-> TRUE]

\* ConfigValue.GetString
GetString(cv) == LastString(ValuesAsStrings(cv))

\* GetKeyValuesStrings, with cvs := self.GetKeyValuesRaw(key) done
StringsOf(r) ==
    IF ~r.ref.found THEN [nil |-> TRUE, v |-> <<>>]
    ELSE [nil |-> FALSE, v |-> ValuesAsStrings(Deref(r.cfg, r.ref))]

\* Config.GetKeyValuesStrings: a nil slice, or the values
GetKeyValuesStrings(cfg, key) == StringsOf(GetKeyValuesRaw(cfg, key))

\* GetKeyValueAsString, with cvs := self.GetKeyValuesRaw(key) done
StringOf(r) ==
    IF ~r.ref.found THEN [str |-> <<>>, exists |-> FALSE]
    ELSE GetString(Deref(r.cfg, r.ref))

\* Config.GetKeyValueAsString
GetKeyValueAsString(cfg, key) == StringOf(GetKeyValuesRaw(cfg, key))

-----------------------------------------------------------------------------
(* Serialization: Config.String and what reads it back *)

\* the replacement EscapeValueString makes for one character; the replaced
\* characters are distinct and no replacement yields one a later pass replaces,
\* except the backslash, which is replaced first
EscapeValueChar(c) ==
    CASE c = BS -> <<BS, BS>>
      [] c = DQ -> <<BS, DQ>>
      [] c = TAB -> <<BS, TAB>>
      [] c = NL -> <<BS, NL>>
      [] OTHER -> <<c>>

RECURSIVE EscapeValueString(_)
\* EscapeValueString
EscapeValueString(in) ==
    IF in = <<>> THEN <<>> ELSE EscapeValueChar(Head(in)) \o EscapeValueString(Tail(in))

\* strings.ContainsAny(escaped, ...) for the special characters: # ; ! $ and
\* the backquote, which no string of the model holds
ContainsSpecial(escaped) == \E i \in 1..Len(escaped) : escaped[i] \in {"#", ";", "!", "$"}

\* ConfigValueSet.String: requote if trailing space or containing special chars
Requote(escaped) ==
    IF Len(escaped) > 1 /\ (IsSpace(escaped[Len(escaped)]) \/ ContainsSpecial(escaped))
    THEN <<DQ>> \o escaped \o <<DQ>>
    ELSE escaped

\* ConfigValueSet.String, the line written for one value under a key
ValueLineString(key, v) ==
    <<TAB>> \o key
        \o (IF v.nil THEN <<>> ELSE <<SPC, "=", SPC>> \o Requote(EscapeValueString(v.str)))
        \o <<NL>>

RECURSIVE ValueLinesString(_, _)
\* ConfigValueSet.String, the inner loop over the values of one key
ValueLinesString(key, values) ==
    IF values = <<>> THEN <<>>
    ELSE ValueLineString(key, Head(values)) \o ValueLinesString(key, Tail(values))

RECURSIVE RangeStrings(_)
\* a range loop over a Go map that appends a string for each entry: the order
\* of the entries is not fixed, so the outcome is one of a set; parts[k] is the
\* set of strings the entry k may contribute
RangeStrings(parts) ==
    IF DOMAIN parts = {} THEN {<<>>}
    ELSE UNION {{t \o rest : t \in parts[k],
                             rest \in RangeStrings([j \in DOMAIN parts \ {k} |-> parts[j]])}
                : k \in DOMAIN parts}

\* ConfigValueSet.String: the strings it may return
ValueSetStrings(vs) ==
    RangeStrings([k \in DOMAIN vs |-> {ValueLinesString(vs[k].OrigCaseName, vs[k].Value)}])

\* ConfigSection.String, the header put before the section's own values
SectionHeaded(sec, out) ==
    IF out # <<>> THEN <<"[">> \o sec.OrigCaseName \o <<"]", NL>> \o out ELSE out

\* ConfigSection.String, what one subsection adds
SubSectionHeaded(sec, ss, ssOut) ==
    IF ssOut # <<>>
    THEN <<"[">> \o sec.OrigCaseName \o <<SPC, DQ>> \o EscapeValueString(ss.Name)
             \o <<DQ, "]", NL>> \o ssOut
    ELSE <<>>

\* ConfigSection.String: the strings it may return
SectionStrings(sec) ==
    {SectionHeaded(sec, out) \o subs :
        out \in ValueSetStrings(sec.Values),
        subs \in RangeStrings([n \in DOMAIN sec.SubSections |->
                    {SubSectionHeaded(sec, sec.SubSections[n], ssOut) :
                        ssOut \in ValueSetStrings(sec.SubSections[n].Values)}])}

\* Config.String: the strings it may return
ConfigStrings(cfg) ==
    {out \o secs :
        out \in ValueSetStrings(cfg.BaseValues),
        secs \in RangeStrings([n \in DOMAIN cfg.Sections |-> SectionStrings(cfg.Sections[n])])}

\* the lines bufio.Scanner yields for a text: the text split at each newline,
\* without the empty piece after the last one
ScanLines(data) ==
    IF data = <<>> THEN <<>>
    ELSE IF data[Len(data)] = NL THEN Split(SubSeq(data, 1, Len(data) - 1), NL)
    ELSE Split(data, NL)

\* NewConfigFromString
NewConfigFromString(data) == NewConfigFromLines(ScanLines(data))

-----------------------------------------------------------------------------
(* Conversions of strings: strconv and time.ParseDuration *)

DigitValue(c) ==
    CASE c = "0" -> 0 [] c = "1" -> 1 [] c = "2" -> 2 [] c = "3" -> 3 [] c = "4" -> 4
      [] c = "5" -> 5 [] c = "6" -> 6 [] c = "7" -> 7 [] c = "8" -> 8 [] c = "9" -> 9

RECURSIVE DigitsValue(_)
\* the number a string of decimal digits writes
DigitsValue(s) ==
    IF s = <<>> THEN 0
    ELSE 10 * DigitsValue(SubSeq(s, 1, Len(s) - 1)) + DigitValue(s[Len(s)])

IsDigits(s) == s # <<>> /\ \A i \in 1..Len(s) : IsDigit(s[i])

\* the result of a conversion: ok is err == nil, v the value returned
Parsed(v) == [ok |-> TRUE, v |-> v]
NotParsed(v) == [ok |-> FALSE, v |-> v]

\* strconv.ParseUint(s, 10, 64), for the numbers that fit
ParseUint(s) == IF IsDigits(s) THEN Parsed(DigitsValue(s)) ELSE NotParsed(0)

\* strconv.ParseInt(s, 10, 64), for the numbers that fit
ParseInt(s) ==
    IF s # <<>> /\ Head(s) \in {"+", "-"}
    THEN IF IsDigits(Tail(s))
         THEN Parsed(IF Head(s) = "-" THEN 0 - DigitsValue(Tail(s)) ELSE DigitsValue(Tail(s)))
         ELSE NotParsed(0)
    ELSE ParseUint(s)

\* strconv.ParseBool
ParseBool(str) ==
    IF str \in {<<"1">>, <<"t">>, <<"T">>, <<"T", "R", "U", "E">>, <<"t", "r", "u", "e">>, <<"T", "r", "u", "e">>} THEN Parsed(TRUE)
    ELSE IF str \in {<<"0">>, <<"f">>, <<"F">>, <<"F", "A", "L", "S", "E">>, <<"f", "a", "l", "s", "e">>, <<"F", "a", "l", "s", "e">>} THEN Parsed(FALSE)
    ELSE NotParsed(FALSE)

\* time.ParseDuration, in nanoseconds, for the strings of the model: "0", and a
\* string of digits followed by "ns" or by "s"; the other strings of the model
\* are not durations (they have no unit, or one that is none)
ParseDuration(s) ==
    IF s = <<"0">> THEN Parsed(0)
    ELSE IF Len(s) > 2 /\ SubSeq(s, Len(s) - 1, Len(s)) = <<"n", "s">>
            /\ IsDigits(SubSeq(s, 1, Len(s) - 2))
         THEN Parsed(DigitsValue(SubSeq(s, 1, Len(s) - 2)))
    ELSE IF Len(s) > 1 /\ s[Len(s)] = "s" /\ IsDigits(SubSeq(s, 1, Len(s) - 1))
         THEN Parsed(DigitsValue(SubSeq(s, 1, Len(s) - 1)) * 1000000000)
    ELSE NotParsed(0)

-----------------------------------------------------------------------------
(* Typed reads of a ConfigValue *)

\* a *ConfigValue handed to the binder: nil, or one with these values
NilConfVal == [nil |-> TRUE, Value |-> <<>>]
ConfVal(values) == [nil |-> FALSE, Value |-> values]

\* ConfigValue.HasValues
HasValues(cv) == Len(cv.Value) # 0

\* the first value a loop over the values stops at: the first of those in bad
FirstOf(bad) == CHOOSE i \in bad : \A j \in bad : i <= j

\* the conversion of ValuesAsInts ("int") and of ValuesAsUints ("uint")
ParseNumber(kind, str) == IF kind = "int" THEN ParseInt(str) ELSE ParseUint(str)

\* ValuesAsInts and ValuesAsUints, the values the loop returns an error at
NotNumbers(cv, kind) ==
    {i \in 1..Len(cv.Value) : cv.Value[i].nil \/ ~ParseNumber(kind, cv.Value[i].str).ok}

\* ValuesAsInts and ValuesAsUints, the error of the value the loop stops at
NumberError(v) ==
    IF v.nil THEN "Cannot convert empty value to int" ELSE "strconv: invalid syntax"

\* ValuesAsInts and ValuesAsUints, each with its conversion
ValuesAsNumbers(cv, kind) ==
    IF NotNumbers(cv, kind) # {}
    THEN [out |-> <<>>, err |-> NumberError(cv.Value[FirstOf(NotNumbers(cv, kind))])]
    ELSE [out |-> [i \in 1..Len(cv.Value) |-> ParseNumber(kind, cv.Value[i].str).v],
          err |-> ""]

\* ConfigValue.ValuesAsUints (out is read only when err is nil)
ValuesAsUints(cv) == ValuesAsNumbers(cv, "uint")

\* ConfigValue.ValuesAsInts (out is read only when err is nil)
ValuesAsInts(cv) == ValuesAsNumbers(cv, "int")

\* ConfigValue.ValuesAsBools, the switch a value reaches when ParseInt gave no error
BoolWord(lc) ==
    IF lc \in {<<"t", "r", "u", "e">>, <<"y", "e", "s">>} THEN Parsed(TRUE)
    ELSE IF lc \in {<<"f", "a", "l", "s", "e">>, <<"n", "o">>} THEN Parsed(FALSE)
    ELSE NotParsed(FALSE)

\* ConfigValue.ValuesAsBools, the loop body for one value, with
\* val, err := strconv.ParseInt(*v, 10, 32) done (n)
BoolOfParsed(v, n) ==
    IF ~n.ok THEN Parsed(n.v # 0) ELSE BoolWord(ToLower(v.str))

\* ConfigValue.ValuesAsBools, the loop body for one value
BoolOf(v) ==
    IF v.nil THEN Parsed(FALSE)
    ELSE IF Len(v.str) = 0 THEN Parsed(FALSE)
    ELSE BoolOfParsed(v, ParseInt(v.str))

\* ConfigValue.ValuesAsBools (out is read only when err is nil)
ValuesAsBools(cv) ==
    IF \E i \in 1..Len(cv.Value) : ~BoolOf(cv.Value[i]).ok
    THEN [out |-> <<>>, err |-> "Cannot convert to bool"]
    ELSE [out |-> [i \in 1..Len(cv.Value) |-> BoolOf(cv.Value[i]).v], err |-> ""]

\* GetInt, GetUint and GetBool, with out, err := self.ValuesAs...() done
LastOf(r, zero) ==
    IF r.err # "" THEN [v |-> zero, exists |-> FALSE, err |-> r.err]
    ELSE IF Len(r.out) = 0 THEN [v |-> zero, exists |-> FALSE, err |-> ""]
    ELSE [v |-> r.out[Len(r.out)], exists |-> TRUE, err |-> ""]

\* ConfigValue.GetInt
GetInt(cv) == LastOf(ValuesAsInts(cv), 0)

\* ConfigValue.GetUint
GetUint(cv) == LastOf(ValuesAsUints(cv), 0)

\* ConfigValue.GetBool
GetBool(cv) == LastOf(ValuesAsBools(cv), FALSE)

\* the typed getters of Config, with cvs := self.GetKeyValuesRaw(key) done:
\* what they return when cvs is nil
NoValues == [out |-> <<>>, err |-> ""]
NoLast(zero) == [v |-> zero, exists |-> FALSE, err |-> ""]

\* Config.GetKeyValuesInts (out is nil when the key does not exist)
GetKeyValuesInts(cfg, key) ==
    IF ~GetKeyValuesRaw(cfg, key).ref.found THEN NoValues
    ELSE ValuesAsInts(Deref(GetKeyValuesRaw(cfg, key).cfg, GetKeyValuesRaw(cfg, key).ref))

\* Config.GetKeyValuesBools (out is nil when the key does not exist)
GetKeyValuesBools(cfg, key) ==
    IF ~GetKeyValuesRaw(cfg, key).ref.found THEN NoValues
    ELSE ValuesAsBools(Deref(GetKeyValuesRaw(cfg, key).cfg, GetKeyValuesRaw(cfg, key).ref))

\* Config.GetKeyValueAsInt
GetKeyValueAsInt(cfg, key) ==
    IF ~GetKeyValuesRaw(cfg, key).ref.found THEN NoLast(0)
    ELSE GetInt(Deref(GetKeyValuesRaw(cfg, key).cfg, GetKeyValuesRaw(cfg, key).ref))

\* Config.GetKeyValueAsBool
GetKeyValueAsBool(cfg, key) ==
    IF ~GetKeyValuesRaw(cfg, key).ref.found THEN NoLast(FALSE)
    ELSE GetBool(Deref(GetKeyValuesRaw(cfg, key).cfg, GetKeyValuesRaw(cfg, key).ref))

-----------------------------------------------------------------------------
(* The binder: Config.Load, loadStruct, loadSetValue *)

\* the types of the fields of a target
DurationType == [kind |-> "duration"]
StringType == [kind |-> "string"]
UintType == [kind |-> "uint"]
IntType == [kind |-> "int"]
BoolType == [kind |-> "bool"]
ArrayType(n, elem) == [kind |-> "array", len |-> n, elem |-> elem]
SliceType(elem) == [kind |-> "slice", elem |-> elem]
MapType(key, elem) == [kind |-> "map", key |-> key, elem |-> elem]
StructType(fields) == [kind |-> "struct", fields |-> fields]

RECURSIVE Zero(_)
\* the zero value of a type (reflect.New, and a variable never assigned): a nil
\* slice is the empty sequence and a nil map the empty function
Zero(t) ==
    CASE t.kind = "string" -> <<>>
      [] t.kind = "bool" -> FALSE
      [] t.kind = "array" -> [i \in 1..t.len |-> IF t.elem.kind = "string" THEN <<>> ELSE 0]
      [] t.kind = "slice" -> <<>>
      [] t.kind = "map" -> EmptyMap
      [] t.kind = "struct" -> [i \in 1..Len(t.fields) |-> Zero(t.fields[i].type)]
      [] OTHER -> 0

\* what loadSetValue leaves: the content of retval, the error it returns (""
\* for nil), and whether it panicked instead of returning
Set(v) == [val |-> v, err |-> "", panic |-> FALSE]
Refused(prev, err) == [val |-> prev, err |-> err, panic |-> FALSE]
Panicked(prev) == [val |-> prev, err |-> "", panic |-> TRUE]

ErrRequired == "Could not populate required: no value"
ErrDefault == "Could not populate default: default value did not parse"
ErrDuration == "Could not parse value as duration"
ErrArrayElem == "Arrays can only contain basic types"
ErrKind == "cannot populate field of type"
ErrSliceElem == "Slices can only contain basic types"
ErrNull == "Could not populate: null value"
ErrMapKey == "Map keys can only contain basic types"
ErrMapOfMap == "Map values cannot be another maps"
ErrMapStructKey == "Key must be of form '<section>' or '<setion>.*'"
ErrMapScalarKey == "Key must be of form '<section>.*.<key>'"
ErrMapSection == "Required section was not present"
ErrMapKeyParse == "Sub-section name could not be parsed as required key-type"
ErrMapValue == "Contents of sub-section could not be parsed as required value-type"

\* loadSetValue: confVal == nil || !confVal.HasValues()
NoValue(confVal) == confVal.nil \/ ~HasValues(confVal)

\* a field without a value left as it is even when it is required
MissingValueLeft(required, haveDefault) == IF haveDefault THEN "default" ELSE "leave"

\* loadSetValue, what a scalar case does for a field without a value
MissingValue(required, haveDefault) ==
    IF required THEN "required"
    ELSE IF ~haveDefault THEN "leave"
    ELSE "default"

\* loadSetValue: retval set to what a conversion returned, or the error err
SetParsed(prev, r, err) == IF r.ok THEN Set(r.v) ELSE Refused(prev, err)

\* loadSetValue: retval set to what GetInt, GetUint or GetBool returned
SetLast(prev, r) == IF r.err # "" THEN Refused(prev, r.err) ELSE Set(r.v)

\* loadSetValue, the scalar cases for a field that has no value
loadMissing(t, prev, defVal, policy) ==
    CASE policy = "required" -> Refused(prev, ErrRequired)
      [] policy = "leave" -> Set(prev)
      [] t.kind = "duration" -> SetParsed(prev, ParseDuration(defVal), ErrDuration)
      [] t.kind = "string" -> Set(defVal)
      [] t.kind = "uint" -> SetParsed(prev, ParseUint(defVal), ErrDefault)
      [] t.kind = "int" -> SetParsed(prev, ParseInt(defVal), ErrDefault)
      [] t.kind = "bool" -> SetParsed(prev, ParseBool(defVal), ErrDefault)

\* loadSetValue, the scalar cases for a field that has values
loadFound(t, prev, confVal) ==
    CASE t.kind = "duration" ->
            SetParsed(prev, ParseDuration(GetString(confVal).str), ErrDuration)
      [] t.kind = "string" -> Set(GetString(confVal).str)
      [] t.kind = "uint" -> SetLast(prev, GetUint(confVal))
      [] t.kind = "int" -> SetLast(prev, GetInt(confVal))
      [] t.kind = "bool" -> SetLast(prev, GetBool(confVal))

\* loadSetValue, the duration, string, uint, int and bool cases
loadScalar(t, prev, defVal, confVal, required, haveDefault) ==
    IF NoValue(confVal)
    THEN loadMissing(t, prev, defVal, MissingValue(required, haveDefault))
    ELSE loadFound(t, prev, confVal)

\* the first aLen values kept in place of the last
FirstValues(values, aLen) ==
    IF aLen < Len(values) THEN SubSeq(values, 1, aLen) ELSE values

\* loadSetValue, the array case: get the last max values of the slice
LastValues(values, aLen) ==
    IF aLen < Len(values) THEN SubSeq(values, Len(values) - aLen + 1, Len(values))
    ELSE values

\* loadSetValue, the array case: passConfVal for slot i (0-based)
SlotConfVal(values, i) ==
    IF i < Len(values) THEN ConfVal(<<values[i + 1]>>) ELSE NilConfVal

\* loadSetValue, the array case: the array after the call for one slot
SlotSet(arr, i, r) ==
    IF r.err # "" \/ r.panic THEN [val |-> [arr EXCEPT ![i + 1] = r.val], err |-> r.err,
                                   panic |-> r.panic]
    ELSE Set([arr EXCEPT ![i + 1] = r.val])

RECURSIVE loadSetValue(_, _, _, _, _, _)

RECURSIVE loadSlots(_, _, _, _, _, _, _)
\* loadSetValue, the array case: the loop over the slots from slot i on
loadSlots(t, a, i, defVal, values, required, haveDefault) ==
    IF a.err # "" \/ a.panic \/ i >= t.len THEN a
    ELSE loadSlots(t,
            SlotSet(a.val, i, loadSetValue(t.elem, a.val[i + 1], defVal,
                                           SlotConfVal(values, i), required, haveDefault)),
            i + 1, defVal, values, required, haveDefault)

\* loadSetValue, the array case; len(confVal.Value) with a nil confVal is a
\* nil pointer dereference
loadArray(t, prev, defVal, confVal, required, haveDefault) ==
    IF t.elem.kind \in {"array", "slice", "map", "struct"} THEN Refused(prev, ErrArrayElem)
    ELSE IF confVal.nil THEN Panicked(prev)
    ELSE loadSlots(t, Set(prev), 0, defVal, LastValues(confVal.Value, t.len),
                   required, haveDefault)

\* loadSetValue, the slice case: the values that the loop ranges over
SliceConfVal(defVal, confVal) ==
    IF NoValue(confVal) THEN ConfVal(<<Ptr(defVal)>>) ELSE confVal

\* loadSetValue, the slice case: the slice after the call for one element
\* (retval.Set(reflect.Append(retval, elemval)) when the call returned nil)
AppendElem(slice, r) ==
    IF r.err # "" \/ r.panic THEN [val |-> slice, err |-> r.err, panic |-> r.panic]
    ELSE Set(Append(slice, r.val))

\* loadSetValue, the slice case: the loop body for the value stringPtr
ElemStep(t, slice, defVal, stringPtr, required, haveDefault) ==
    IF stringPtr.nil THEN Refused(slice, ErrNull)
    ELSE AppendElem(slice, loadSetValue(t.elem, Zero(t.elem), defVal,
                                        ConfVal(<<stringPtr>>), required, haveDefault))

RECURSIVE loadElems(_, _, _, _, _, _, _)
\* loadSetValue, the slice case: the loop over the values from the i-th on
loadElems(t, a, i, defVal, values, required, haveDefault) ==
    IF a.err # "" \/ a.panic \/ i > Len(values) THEN a
    ELSE loadElems(t, ElemStep(t, a.val, defVal, values[i], required, haveDefault),
                   i + 1, defVal, values, required, haveDefault)

\* loadSetValue, the slice case with a confVal that has values
loadSliceOf(t, prev, defVal, confVal, required, haveDefault) ==
    IF t.elem.kind \in {"array", "slice", "map"} THEN Refused(prev, ErrSliceElem)
    ELSE loadElems(t, Set(prev), 1, defVal, confVal.Value, required, haveDefault)

\* loadSetValue, the slice case
loadSlice(t, prev, defVal, confVal, required, haveDefault) ==
    IF NoValue(confVal) /\ required THEN Refused(prev, ErrRequired)
    ELSE IF NoValue(confVal) /\ ~haveDefault THEN Set(prev)
    ELSE loadSliceOf(t, prev, defVal, SliceConfVal(defVal, confVal), required, haveDefault)

\* Config.loadSetValue, for the types of the model but the maps
loadSetValue(t, prev, defVal, confVal, required, haveDefault) ==
    CASE t.kind \in {"duration", "string", "uint", "int", "bool"} ->
            loadScalar(t, prev, defVal, confVal, required, haveDefault)
      [] t.kind = "slice" -> loadSlice(t, prev, defVal, confVal, required, haveDefault)
      [] t.kind = "array" -> loadArray(t, prev, defVal, confVal, required, haveDefault)
      [] OTHER -> Refused(prev, ErrKind)

\* the *ConfigValue GetKeyValuesRaw returned, as loadSetValue reads it
ConfValOf(r) ==
    IF r.ref.found THEN ConfVal(Deref(r.cfg, r.ref).Value) ELSE NilConfVal

\* what Load returns: nil, a LoadError (a map from key to error), another
\* error, or nothing because it panicked
NoError == [kind |-> "nil"]
LoadErrors(errs) == [kind |-> "LoadError", errs |-> errs]
ErrParseRequired == [kind |-> "error", msg |-> "Could not parse required as boolean"]
Panic == [kind |-> "panic"]

\* loadStruct, the key of a field in the namespace ns
FullKey(ns, key) == IF ns # <<>> THEN ns \o <<".">> \o key ELSE key

\* loadStruct: required, from the gcRequired tag that parsed
Required(f) == f.gcRequired # <<>> /\ ParseBool(f.gcRequired).v

\* loadStruct: if !required { def, haveDefault = ft.Tag.Lookup("gcDefault") }
HaveDefault(f) == ~Required(f) /\ f.hasDefault
Default(f) == IF HaveDefault(f) THEN f.gcDefault ELSE <<>>

\* ConfigSubSection.GetKeyValuesRaw, as loadSetValue reads what it returns
SubGetKeyValuesRaw(subSection, key) ==
    IF ToLower(key) \in DOMAIN subSection.Values
    THEN ConfVal(subSection.Values[ToLower(key)].Value)
    ELSE NilConfVal

\* loadSetValue, the map case: sName and sKey from the key of the field, or
\* the error for a key of another form
SectionOnly(key, sName) ==
    IF sName = <<>> THEN [err |-> ErrMapStructKey, sName |-> <<>>, sKey |-> <<>>]
    ELSE [err |-> "", sName |-> sName, sKey |-> <<>>]

\* loadSetValue, the map case: case reflect.Struct of the switch on the element
StructMapNames(key) ==
    IF HasSuffix(key, <<".", "*", ".">>) THEN SectionOnly(key, SubSeq(key, 1, Len(key) - 3))
    ELSE IF HasSuffix(key, <<".", "*">>) THEN SectionOnly(key, SubSeq(key, 1, Len(key) - 2))
    ELSE IF Contains(key, <<".", "*", ".">>)
         THEN [err |-> ErrMapStructKey, sName |-> <<>>, sKey |-> <<>>]
    ELSE SectionOnly(key, key)

\* loadSetValue, the map case: the default of the switch on the element, with
\* out := strings.Split(key, ".*.") done
ScalarMapNames(out) ==
    IF Len(out) # 2 \/ out[1] = <<>> \/ out[2] = <<>>
    THEN [err |-> ErrMapScalarKey, sName |-> <<>>, sKey |-> <<>>]
    ELSE [err |-> "", sName |-> out[1], sKey |-> out[2]]

\* loadSetValue, the map case: the switch on the kind of the element
MapNames(t, key) ==
    IF t.elem.kind = "struct" THEN StructMapNames(key)
    ELSE ScalarMapNames(SplitSep(key, <<".", "*", ".">>))

\* the subsections of a section in the order that range yields them in: order
\* is a sequence without repetition that has every subsection name of the store
RangeSubSections(section, order) ==
    SelectSeq(order, LAMBDA n : n \in DOMAIN section.SubSections)

\* loadSetValue, the map case: what loadStruct returned, as the error check
\* after it reads it
StructValue(st) ==
    IF st.out = Panic THEN Panicked(st.target)
    ELSE IF st.out # NoError THEN Refused(st.target, ErrMapValue)
    ELSE Set(st.target)

RECURSIVE loadStruct(_, _, _, _, _)

\* loadSetValue, the map case: vVal for the subsection subSectName
EntryValue(cfg, order, t, section, subSectName, names, defVal, required, haveDefault) ==
    IF t.elem.kind = "struct"
    THEN StructValue(loadStruct(cfg, t.elem.fields, Zero(t.elem),
                                names.sName \o <<".">> \o subSectName,
                                [j \in 1..Len(t.elem.fields) |-> order]))
    ELSE loadSetValue(t.elem, Zero(t.elem), defVal,
                      SubGetKeyValuesRaw(section.SubSections[subSectName], names.sKey),
                      required, haveDefault)

\* loadSetValue, the map case: retval.SetMapIndex(kVal, vVal), or the error
\* returned in place of it
EntrySet(map, kVal, r) ==
    IF r.panic THEN Panicked(map)
    ELSE IF r.err # "" THEN Refused(map, ErrMapValue)
    ELSE Set((kVal :> r.val) @@ map)

\* loadSetValue, the map case: the loop body after kVal was loaded (kr)
EntryKeyed(cfg, order, t, map, section, subSectName, names, defVal, required, haveDefault, kr) ==
    IF kr.err # "" THEN Refused(map, ErrMapKeyParse)
    ELSE EntrySet(map, kr.val,
                  EntryValue(cfg, order, t, section, subSectName, names, defVal,
                             required, haveDefault))

\* loadSetValue, the map case: the loop body for the subsection subSectName
EntryStep(cfg, order, t, map, section, subSectName, names, defVal, required, haveDefault) ==
    EntryKeyed(cfg, order, t, map, section, subSectName, names, defVal, required, haveDefault,
               loadSetValue(t.key, Zero(t.key), <<>>, ConfVal(<<Ptr(subSectName)>>),
                            FALSE, FALSE))

RECURSIVE loadEntries(_, _, _, _, _, _, _, _, _, _, _)
\* loadSetValue, the map case: the loop over the subsections from the i-th on
loadEntries(cfg, order, t, a, section, subs, i, names, defVal, required, haveDefault) ==
    IF a.err # "" \/ a.panic \/ i > Len(subs) THEN a
    ELSE loadEntries(cfg, order, t,
                     EntryStep(cfg, order, t, a.val, section, subs[i], names, defVal,
                               required, haveDefault),
                     section, subs, i + 1, names, defVal, required, haveDefault)

\* loadSetValue, the map case from section := self.GetSection(sName, false) on
loadSection(cfg, order, t, prev, names, defVal, required, haveDefault) ==
    IF ToLower(names.sName) \notin DOMAIN GetSection(cfg, names.sName, FALSE).Sections
    THEN IF required THEN Refused(prev, ErrMapSection) ELSE Set(prev)
    ELSE loadEntries(cfg, order, t, Set(EmptyMap), cfg.Sections[ToLower(names.sName)],
                     RangeSubSections(cfg.Sections[ToLower(names.sName)], order), 1,
                     names, defVal, required, haveDefault)

\* loadSetValue, the map case after the switches on the key and on the element
loadMapNamed(cfg, order, t, prev, names, defVal, required, haveDefault) ==
    IF names.err # "" THEN Refused(prev, names.err)
    ELSE loadSection(cfg, order, t, prev, names, defVal, required, haveDefault)

\* loadSetValue, the map case
loadMap(cfg, order, t, prev, key, defVal, required, haveDefault) ==
    IF t.key.kind \in {"array", "slice", "map", "struct"} THEN Refused(prev, ErrMapKey)
    ELSE IF t.elem.kind = "map" THEN Refused(prev, ErrMapOfMap)
    ELSE loadMapNamed(cfg, order, t, prev, MapNames(t, key), defVal, required, haveDefault)

\* Config.loadSetValue, called by loadStruct for a field
loadFieldValue(cfg, order, t, prev, key, defVal, confVal, required, haveDefault) ==
    IF t.kind = "map" THEN loadMap(cfg, order, t, prev, key, defVal, required, haveDefault)
    ELSE loadSetValue(t, prev, defVal, confVal, required, haveDefault)

\* loadStruct, the loop body after loadSetValue returned r for field i
FieldSet(st, i, key, cfg, r) ==
    [st EXCEPT !.cfg = cfg,
               !.target[i] = r.val,
               !.errs = IF r.err # "" THEN (key :> r.err) @@ @ ELSE @,
               !.out = IF r.panic THEN Panic ELSE @,
               !.done = r.panic]

\* loadStruct, the loop body from confValue := self.GetKeyValuesRaw(key) (r) on
FieldLoad(st, i, f, key, r) ==
    FieldSet(st, i, key, r.cfg,
             loadFieldValue(r.cfg, st.orders[i], f.type, st.target[i], key, Default(f),
                            ConfValOf(r), Required(f), HaveDefault(f)))

\* loadStruct, the loop body for field i
FieldStep(st, i, f, ns) ==
    IF ~f.CanSet THEN st
    ELSE IF f.gcKey = <<>> THEN st
    ELSE IF f.gcRequired # <<>> /\ ~ParseBool(f.gcRequired).ok
         THEN [st EXCEPT !.out = ErrParseRequired, !.done = TRUE]
    ELSE FieldLoad(st, i, f, FullKey(ns, f.gcKey),
                   GetKeyValuesRaw(st.cfg, FullKey(ns, f.gcKey)))

RECURSIVE loadFields(_, _, _, _)
\* loadStruct, the loop over the fields from field i on
loadFields(st, fields, i, ns) ==
    IF st.done \/ i > Len(fields) THEN st
    ELSE loadFields(FieldStep(st, i, fields[i], ns), fields, i + 1, ns)

\* loadStruct, after the loop
Loaded(st) ==
    IF st.done THEN st
    ELSE IF DOMAIN st.errs = {} THEN [st EXCEPT !.out = NoError]
    ELSE [st EXCEPT !.out = LoadErrors(st.errs)]

\* Config.loadStruct: the store, the target and what is returned; orders[i] is
\* the order that the subsections are ranged over in when field i is a map
loadStruct(cfg, fields, target, ns, orders) ==
    Loaded(loadFields([cfg |-> cfg, target |-> target, errs |-> EmptyMap,
                       out |-> NoError, done |-> FALSE, orders |-> orders], fields, 1, ns))

\* Config.Load, on a pointer to a struct with these fields and this content
Load(cfg, fields, target, orders) == loadStruct(cfg, fields, target, <<>>, orders)

-----------------------------------------------------------------------------
(* Bounds and inputs *)

MaxLines == 3
MaxAddLines == 2
MaxAdds == 2

\* every sequence over S of length at most n
SeqsUpTo(S, n) == UNION {[1..m -> S] : m \in 0..n}

\* The lines of the structural inputs:
\*   [s]          a section header
\*   [S "X"]      a header with a subsection, both in upper case
\*   [s "x"]      a header with a subsection, both in lower case
\*   [s "x.x"]    a subsection name with a dot in it
\*   []           a header with an empty section name
\*   k = a        a key-value pair
\*   K = b        the same key in upper case
\*   k            a key without a value
\*   = a          a value without a key
\*   # c          a comment line
\*   [s           a header that is not closed
StructLines == {
    <<"[", "s", "]">>,
    <<"[", "S", SPC, DQ, "X", DQ, "]">>,
    <<"[", "s", SPC, DQ, "x", DQ, "]">>,
    <<"[", "s", SPC, DQ, "x", ".", "x", DQ, "]">>,
    <<"[", "]">>,
    <<"k", SPC, "=", SPC, "a">>,
    <<"K", SPC, "=", SPC, "b">>,
    <<"k">>,
    <<"=", SPC, "a">>,
    <<"#", SPC, "c">>,
    <<"[", "s">>
}

StructInputs == SeqsUpTo(StructLines, MaxLines)

\* The lines of the inputs that AddKeyValue calls follow:
\*   [S]          a section header
\*   [s "x"]      a header with a subsection
\*   k = a        a key-value pair
\*   K = b        the same key in upper case
\*   k            a key without a value
AddLines == {
    <<"[", "S", "]">>,
    <<"[", "s", SPC, DQ, "x", DQ, "]">>,
    <<"k", SPC, "=", SPC, "a">>,
    <<"K", SPC, "=", SPC, "b">>,
    <<"k">>
}

AddInputs == SeqsUpTo(AddLines, MaxAddLines)

MaxValueLen == 4
MaxContinued == 3

\* the characters of the values of the value lines
ValueChars == {"t", "n", SPC, TAB, DQ, BS, ";", "#"}

\* the line "k=V"
ValueLine(V) == <<"k", "=">> \o V

\* one line, "k=V", for every V over ValueChars of at most MaxValueLen characters
ValueInputs == {<<ValueLine(V)>> : V \in SeqsUpTo(ValueChars, MaxValueLen)}

\* the texts of the lines of the continued inputs: '' | 't' | ' t' | 't ' | '"t "' | 't;n'
ContinuedTexts == {
    <<>>,
    <<"t">>,
    <<SPC, "t">>,
    <<"t", SPC>>,
    <<DQ, "t", SPC, DQ>>,
    <<"t", ";", "n">>
}

\* each of them as it is and with a backslash at its end
ContinuedPieces == ContinuedTexts \cup {Append(V, BS) : V \in ContinuedTexts}

\* at most MaxContinued lines of these pieces, the first after "k="
ContinuedInputs ==
    {[i \in DOMAIN ls |-> IF i = 1 THEN ValueLine(ls[i]) ELSE ls[i]] :
        ls \in SeqsUpTo(ContinuedPieces, MaxContinued) \ {<<>>}}

MaxLoadLines == 3
MaxArrayLen == 2

\* the lines of the stores that targets are bound to: 'k = a' | 'k = 5' | 'k = 7' | 'k'
LoadLines == {
    <<"k", SPC, "=", SPC, "a">>,
    <<"k", SPC, "=", SPC, "5">>,
    <<"k", SPC, "=", SPC, "7">>,
    <<"k">>
}

LoadInputs == SeqsUpTo(LoadLines, MaxLoadLines)

\* the types of the fields
ScalarTypes == {DurationType, StringType, UintType, IntType, BoolType}
ArrayTypes == {ArrayType(n, elem) : n \in 1..MaxArrayLen, elem \in {StringType, IntType}}

SliceTypes == {SliceType(elem) : elem \in {StringType, IntType}}

\* the paths of the fields: a key of the lines, a key that no line has, and a
\* key of a section that no line has
Paths == {<<"k">>, <<"x">>, <<"s", ".", "k">>}

\* the policies of the fields, each a gcRequired tag and a gcDefault tag:
\* neither, required, required with a default, not required with a default of
\* "5", of "1s" and of "true", and a gcRequired tag that is no boolean
Policy(req, has, def) == [gcRequired |-> req, hasDefault |-> has, gcDefault |-> def]
Policies == {
    Policy(<<>>, FALSE, <<>>),
    Policy(<<"t", "r", "u", "e">>, FALSE, <<>>),
    Policy(<<"t", "r", "u", "e">>, TRUE, <<"5">>),
    Policy(<<"f", "a", "l", "s", "e">>, TRUE, <<"5">>),
    Policy(<<>>, TRUE, <<"1", "s">>),
    Policy(<<>>, TRUE, <<"t", "r", "u", "e">>),
    Policy(<<"x">>, FALSE, <<>>)
}

\* a field of a target struct: its type, its tags and whether it is exported
Field(type, key, policy, canSet) ==
    [type |-> type, gcKey |-> key, gcRequired |-> policy.gcRequired,
     hasDefault |-> policy.hasDefault, gcDefault |-> policy.gcDefault, CanSet |-> canSet]

RECURSIVE Other(_)
\* a value of a type that is not its zero value; a slice of one element, and a
\* map with the one entry "o"
Other(t) ==
    CASE t.kind = "string" -> <<"p">>
      [] t.kind = "bool" -> TRUE
      [] t.kind = "array" -> [i \in 1..t.len |-> IF t.elem.kind = "string" THEN <<"p">> ELSE 3]
      [] t.kind = "slice" -> <<Other(t.elem)>>
      [] t.kind = "map" -> (<<"o">> :> Other(t.elem))
      [] t.kind = "struct" -> [i \in 1..Len(t.fields) |-> Other(t.fields[i].type)]
      [] OTHER -> 3

\* a target: the fields of the struct and what they hold before the call
Target(fields, content) == [fields |-> fields, content |-> content]

\* the targets of one field: every type, path and policy, the field holding a
\* value that is not the zero value of its type
FieldTargets ==
    {Target(<<Field(t, key, policy, TRUE)>>, <<"other">>) :
        t \in ScalarTypes \cup ArrayTypes, key \in Paths, policy \in Policies}

\* the targets of one slice field: every path and policy, the slice nil and
\* holding one element before the call
SliceTargets ==
    {Target(<<Field(t, key, policy, TRUE)>>, <<content>>) :
        t \in SliceTypes, key \in Paths, policy \in Policies, content \in {"zero", "other"}}

\* the fields of the targets of several fields: a string and an int under the
\* key of the lines, a required string and an array under a key no line has,
\* an int with a default, a string whose gcRequired tag is no boolean, and a
\* field without a gcKey tag
SomeFields == {
    Field(StringType, <<"k">>, Policy(<<>>, FALSE, <<>>), TRUE),
    Field(IntType, <<"k">>, Policy(<<>>, FALSE, <<>>), TRUE),
    Field(StringType, <<"x">>, Policy(<<"t", "r", "u", "e">>, FALSE, <<>>), TRUE),
    Field(ArrayType(1, StringType), <<"x">>, Policy(<<>>, FALSE, <<>>), TRUE),
    Field(IntType, <<"x">>, Policy(<<>>, TRUE, <<"5">>), TRUE),
    Field(StringType, <<"k">>, Policy(<<"x">>, FALSE, <<>>), TRUE),
    Field(StringType, <<>>, Policy(<<>>, FALSE, <<>>), TRUE)
}

\* the targets of two of these fields, holding their zero values
StructTargets == {Target(<<f1, f2>>, <<"zero", "zero">>) : f1, f2 \in SomeFields}

\* what the fields of a target hold before the call
Content(tg) ==
    [i \in DOMAIN tg.fields |->
        IF tg.content[i] = "zero" THEN Zero(tg.fields[i].type) ELSE Other(tg.fields[i].type)]

MaxMapLines == 4

\* The lines of the stores that maps are bound to:
\*   [s "x"]      a header with a subsection
\*   [s "X"]      the same subsection name in upper case
\*   [s]          a header without a subsection
\*   k = a        a key-value pair
\*   k = 5        the same key with an integer as its value
MapLines == {
    <<"[", "s", SPC, DQ, "x", DQ, "]">>,
    <<"[", "s", SPC, DQ, "X", DQ, "]">>,
    <<"[", "s", "]">>,
    <<"k", SPC, "=", SPC, "a">>,
    <<"k", SPC, "=", SPC, "5">>
}

MapInputs == SeqsUpTo(MapLines, MaxMapLines)

\* the policies of the map fields: neither, required, and a default of "5"
NoPolicy == Policy(<<>>, FALSE, <<>>)
RequiredPolicy == Policy(<<"t", "r", "u", "e">>, FALSE, <<>>)
DefaultPolicy == Policy(<<>>, TRUE, <<"5">>)

\* the records of the maps of records: one field under the key k, a string, an
\* int, a required string, and an int with a default
Records == {StructType(<<Field(t, <<"k">>, policy, TRUE)>>) :
                t \in {StringType, IntType}, policy \in {NoPolicy}}
           \cup {StructType(<<Field(StringType, <<"k">>, RequiredPolicy, TRUE)>>),
                 StructType(<<Field(IntType, <<"k">>, DefaultPolicy, TRUE)>>)}

\* the targets of one field that is a map of records keyed by strings: under
\* the paths s and S.*, nil and holding an entry before the call; under the
\* path of a section that no line has; and under a path of another form
RecordMapTargets ==
    {Target(<<Field(MapType(StringType, rec), key, NoPolicy, TRUE)>>, <<content>>) :
        rec \in Records, key \in {<<"s">>, <<"S", ".", "*">>}, content \in {"zero", "other"}}
    \cup {Target(<<Field(MapType(StringType, StructType(<<Field(StringType, <<"k">>, NoPolicy, TRUE)>>)),
                         key, policy, TRUE)>>, <<"other">>) :
            key \in {<<"t">>, <<"s", ".", "*", ".", "k">>}, policy \in {NoPolicy, RequiredPolicy}}

\* the targets of one field that is a map of scalars: strings and ints under
\* the paths s.*.k and S.*.K, with and without a default, nil and holding an
\* entry before the call; under the path of a key that no line has and of a
\* section that no line has, with each policy; under a path of another form;
\* a map of bools; and a map keyed by ints
ScalarMapTargets ==
    {Target(<<Field(MapType(StringType, elem), key, policy, TRUE)>>, <<content>>) :
        elem \in {StringType, IntType}, key \in {<<"s", ".", "*", ".", "k">>, <<"S", ".", "*", ".", "K">>},
        policy \in {NoPolicy, DefaultPolicy}, content \in {"zero", "other"}}
    \cup {Target(<<Field(MapType(StringType, elem), key, policy, TRUE)>>, <<"zero">>) :
            elem \in {StringType, IntType}, key \in {<<"s", ".", "*", ".", "x">>, <<"t", ".", "*", ".", "k">>},
            policy \in {NoPolicy, RequiredPolicy, DefaultPolicy}}
    \cup {Target(<<Field(MapType(StringType, StringType), <<"s", ".", "*">>, NoPolicy, TRUE)>>, <<"zero">>),
          Target(<<Field(MapType(StringType, BoolType), <<"s", ".", "*", ".", "k">>, NoPolicy, TRUE)>>, <<"zero">>),
          Target(<<Field(MapType(IntType, StringType), <<"s", ".", "*", ".", "k">>, NoPolicy, TRUE)>>, <<"zero">>)}

MaxTypedLines == 2

\* The lines of the stores that typed values are read from:
\*   k = 1   k = 0   k = true   k = Yes   k = no   k = x
\*   k =          a key with an empty value
\*   k            a key without a value
\*   [s]          a section header
\*   [s "x"]      a header with a subsection
TypedLines == {
    <<"k", SPC, "=", SPC, "1">>,
    <<"k", SPC, "=", SPC, "0">>,
    <<"k", SPC, "=", SPC, "t", "r", "u", "e">>,
    <<"k", SPC, "=", SPC, "Y", "e", "s">>,
    <<"k", SPC, "=", SPC, "n", "o">>,
    <<"k", SPC, "=", SPC, "x">>,
    <<"k", SPC, "=">>,
    <<"k">>,
    <<"[", "s", "]">>,
    <<"[", "s", SPC, DQ, "x", DQ, "]">>
}

TypedInputs == SeqsUpTo(TypedLines, MaxTypedLines)

\* the literals given as defaults: 1 0 true Yes no x
TypedDefaults == {<<"1">>, <<"0">>, <<"t", "r", "u", "e">>, <<"Y", "e", "s">>, <<"n", "o">>, <<"x">>}

\* the targets of one scalar field: every scalar type, under the path k with
\* no policy, and under the path x, that no line has, with each default
TypedTargets ==
    {Target(<<Field(t, <<"k">>, NoPolicy, TRUE)>>, <<"other">>) : t \in ScalarTypes}
    \cup {Target(<<Field(t, <<"x">>, Policy(<<>>, TRUE, def), TRUE)>>, <<"other">>) :
            t \in ScalarTypes, def \in TypedDefaults}

\* targets of other shapes under the keys of the lines: a slice, an array, a
\* map of scalars, a map of records, and a required string under a key of a
\* section that no line has
ShapeTargets == {
    Target(<<Field(SliceType(StringType), <<"s", ".", "x", ".", "k">>, NoPolicy, TRUE)>>, <<"zero">>),
    Target(<<Field(ArrayType(1, StringType), <<"k">>, NoPolicy, TRUE)>>, <<"zero">>),
    Target(<<Field(ArrayType(1, StringType), <<"x">>, NoPolicy, TRUE)>>, <<"zero">>),
    Target(<<Field(MapType(StringType, StringType), <<"s", ".", "*", ".", "k">>, NoPolicy, TRUE)>>, <<"zero">>),
    Target(<<Field(MapType(StringType, StringType), <<"t", ".", "*", ".", "k">>, RequiredPolicy, TRUE)>>, <<"zero">>),
    Target(<<Field(MapType(StringType, StructType(<<Field(BoolType, <<"k">>, NoPolicy, TRUE)>>)),
                   <<"s">>, NoPolicy, TRUE)>>, <<"zero">>),
    Target(<<Field(StringType, <<"t", ".", "k">>, RequiredPolicy, TRUE)>>, <<"zero">>)
}

\* the dotted keys of the typed reads: k K x s.k S.x.K s.y.k t.k t.x.k
GetKeys == {<<"k">>, <<"K">>, <<"x">>, <<"s", ".", "k">>, <<"S", ".", "x", ".", "K">>, <<"s", ".", "y", ".", "k">>, <<"t", ".", "k">>, <<"t", ".", "x", ".", "k">>}

MaxFileLines == 3

\* The lines of the file inputs:
\*   [s]            a section header
\*   [T "y"]        a header with a subsection
\*   [s "x"]        another, in the section s
\*   [s] k = a      a header followed by a key-value pair
\*   [s "x"] k = a  the same with a subsection
\*   k = a          a key-value pair
\*   K              a key without a value
\*   k = b\         a value that the next line continues
\*   # c            a comment line
\*   (empty)        a blank line
\*   k k = a        a line that breaks the grammar
HeaderPair(header) == header \o <<SPC, "k", SPC, "=", SPC, "a">>

FileLines == {
    <<"[", "s", "]">>,
    <<"[", "T", SPC, DQ, "y", DQ, "]">>,
    <<"[", "s", SPC, DQ, "x", DQ, "]">>,
    HeaderPair(<<"[", "s", "]">>),
    HeaderPair(<<"[", "s", SPC, DQ, "x", DQ, "]">>),
    <<"k", SPC, "=", SPC, "a">>,
    <<"K">>,
    <<"k", SPC, "=", SPC, "b", BS>>,
    <<"#", SPC, "c">>,
    <<>>,
    <<"k", SPC, "k", SPC, "=", SPC, "a">>
}

FileInputs == SeqsUpTo(FileLines, MaxFileLines)

\* the lines of the files that the run of the parse to its end is checked on:
\* a header, a header followed by a pair, a pair, a continued value, a comment,
\* a blank line and a line that breaks the grammar
PassLines == {
    <<"[", "s", "]">>,
    HeaderPair(<<"[", "s", SPC, DQ, "x", DQ, "]">>),
    <<"k", SPC, "=", SPC, "a">>,
    <<"k", SPC, "=", SPC, "b", BS>>,
    <<"#", SPC, "c">>,
    <<>>,
    <<"k", SPC, "k", SPC, "=", SPC, "a">>
}

PassInputs == SeqsUpTo(PassLines, MaxFileLines)

MaxKeyLen == 4

\* the characters of the lines of the key inputs
KeyChars == {"k", "K", "1", "-", "_", SPC, "="}

\* one line for every text over KeyChars of at most MaxKeyLen characters
KeyInputs == {<<line>> : line \in SeqsUpTo(KeyChars, MaxKeyLen)}

MaxHeaderLen == 4

\* the characters of the lines of the header inputs
HeaderChars == {"[", "]", DQ, BS, "s", SPC, "=", ";"}

\* what comes before the line: nothing, or the line 'k=\' that the line then
\* continues
HeaderPrefixes == {<<>>, <<ValueLine(<<BS>>)>>}

\* the headers with a subsection of one character: '[s "s"]' | '[s "s"' | '[s "s'
QuotedHeaders == {
    <<"[", "s", SPC, DQ, "s", DQ, "]">>,
    <<"[", "s", SPC, DQ, "s", DQ>>,
    <<"[", "s", SPC, DQ, "s">>
}

\* every line over HeaderChars of at most MaxHeaderLen characters and the
\* quoted headers, alone or after a prefix
HeaderInputs ==
    {pre \o <<line>> : pre \in HeaderPrefixes,
                       line \in SeqsUpTo(HeaderChars, MaxHeaderLen) \cup QuotedHeaders}

\* the dotted keys looked up: k S.K s.x.k s.X.K .x.k s..k s. S.x.x.K x.k
LookupKeys == {
    <<"k">>,
    <<"S", ".", "K">>,
    <<"s", ".", "x", ".", "k">>,
    <<"s", ".", "X", ".", "K">>,
    <<".", "x", ".", "k">>,
    <<"s", ".", ".", "k">>,
    <<"s", ".">>,
    <<"S", ".", "x", ".", "x", ".", "K">>,
    <<"x", ".", "k">>
}

\* the arguments of the AddKeyValue calls made on a parsed store
AddSections == {<<>>, <<"s">>}
AddSubSections == {<<>>, <<"x">>}
AddKeys == {<<"K">>}
AddValues == {Ptr(<<"c">>)}

-----------------------------------------------------------------------------
(* The state machine: a parse, then calls on the store it returned *)

NoCall == [op |-> "none"]

\* the store NewConfigFromString returned
store == ret.cfg.c

InitWith(inputs) ==
    /\ input \in inputs
    /\ p = NewParser(input)
    /\ pc = "reading"
    /\ ret = [cfg |-> NilConfig, err |-> NoErr]
    /\ log = <<>>
    /\ nOps = 0
    /\ last = NoCall

\* the state after one turn of the loop of Parser.Read; the turn that ends the
\* loop also returns from NewConfigFromString
ReadTurnDone(r) ==
    /\ p' = r.p
    /\ log' = r.p.assigned
    /\ IF r.more
       THEN pc' = "reading" /\ UNCHANGED ret
       ELSE /\ ret' = Returned(r.p.Config, r.err)
            /\ pc' = IF r.err # NoErr THEN "failed" ELSE "ready"

\* one turn of the loop of Parser.Read, inside NewConfigFromString
ReadStep ==
    /\ pc = "reading"
    /\ ReadTurnDone(ReadOnce(p))
    /\ UNCHANGED <<input, nOps, last>>

\* Config.AddKeyValue called on the returned store
CallAddKeyValue(section, subSection, key, value) ==
    /\ pc = "ready"
    /\ nOps < MaxAdds
    /\ ret' = [ret EXCEPT !.cfg.c = AddKeyValue(@, section, subSection, key, value)]
    /\ log' = Append(log, [sec |-> section, sub |-> subSection, key |-> key,
                           value |-> value, lineNo |-> 0])
    /\ nOps' = nOps + 1
    /\ last' = [op |-> "AddKeyValue", before |-> store]
    /\ UNCHANGED <<input, p, pc>>

\* GetKeyValuesStrings and GetKeyValueAsString called on the returned store
CallLookup(key) ==
    /\ pc = "ready"
    /\ ret' = [ret EXCEPT !.cfg.c = GetKeyValuesRaw(store, key).cfg]
    /\ last' = [op |-> "Lookup", key |-> key, before |-> store,
                strings |-> GetKeyValuesStrings(store, key),
                string |-> GetKeyValueAsString(store, key)]
    /\ UNCHANGED <<input, p, pc, log, nOps>>

\* the typed getters called on the returned store, each with the same key:
\* GetKeyValuesRaw, GetKeyValuesStrings, GetKeyValueAsString, GetKeyValuesInts,
\* GetKeyValuesBools, GetKeyValueAsInt and GetKeyValueAsBool
CallGet(key) ==
    /\ pc = "ready"
    /\ last = NoCall
    /\ ret' = [ret EXCEPT !.cfg.c = GetKeyValuesRaw(store, key).cfg]
    /\ last' = [op |-> "Get", key |-> key, store |-> store,
                raw |-> GetKeyValuesRaw(store, key).ref,
                strings |-> GetKeyValuesStrings(store, key),
                string |-> GetKeyValueAsString(store, key),
                ints |-> GetKeyValuesInts(store, key),
                bools |-> GetKeyValuesBools(store, key),
                int |-> GetKeyValueAsInt(store, key),
                bool |-> GetKeyValueAsBool(store, key)]
    /\ UNCHANGED <<input, p, pc, log, nOps>>

\* Config.String called on the returned store, and NewConfigFromString on
\* the text it returned
CallString ==
    /\ pc = "ready"
    /\ \E text \in ConfigStrings(store) :
          last' = [op |-> "String", before |-> store, text |-> text,
                   again |-> NewConfigFromString(text)]
    /\ UNCHANGED <<input, p, pc, ret, log, nOps>>

\* the subsection names of a store
SubSectionNames(cfg) ==
    UNION {DOMAIN cfg.Sections[n].SubSections : n \in DOMAIN cfg.Sections}

\* the sequences that have every element of S once
RangeOrders(S) ==
    {o \in [1..Cardinality(S) -> S] : \A x \in S : \E i \in DOMAIN o : o[i] = x}

\* the orders that the subsections may be ranged over in, for each field that
\* is a map
Orders(cfg, fields) ==
    {o \in [DOMAIN fields -> RangeOrders(SubSectionNames(cfg)) \cup {<<>>}] :
        \A i \in DOMAIN fields :
            IF fields[i].type.kind = "map" THEN o[i] \in RangeOrders(SubSectionNames(cfg))
            ELSE o[i] = <<>>}

\* the state after Load returned r, or panicked
Bound(fields, content, r) ==
    /\ ret' = [ret EXCEPT !.cfg.c = r.cfg]
    /\ last' = [op |-> "Load", fields |-> fields, before |-> content,
                after |-> r.target, out |-> r.out, store |-> store, orders |-> r.orders]

\* Config.Load called on the store that the parse returned, with a pointer to
\* a target
CallLoad(tg) ==
    /\ pc = "ready"
    /\ last = NoCall
    /\ \E orders \in Orders(store, tg.fields) :
          Bound(tg.fields, Content(tg), Load(store, tg.fields, Content(tg), orders))
    /\ UNCHANGED <<input, p, pc, log, nOps>>

\* a parse of a structural input, then lookups
Init == InitWith(StructInputs)

Next ==
    \/ ReadStep
    \/ \E key \in LookupKeys : CallLookup(key)

Spec == Init /\ [][Next]_vars

\* a parse, then AddKeyValue calls and lookups
InitAdd == InitWith(AddInputs)

NextAdd ==
    \/ ReadStep
    \/ \E s \in AddSections, ss \in AddSubSections, k \in AddKeys, v \in AddValues :
          CallAddKeyValue(s, ss, k, v)
    \/ \E key \in LookupKeys : CallLookup(key)

SpecAdd == InitAdd /\ [][NextAdd]_vars

\* a parse of value lines, then the store written out and read back
InitValue == InitWith(ValueInputs \cup ContinuedInputs)

NextValue ==
    \/ ReadStep
    \/ CallString

SpecValue == InitValue /\ [][NextValue]_vars

\* a parse of lines of values, then targets bound to the store
InitLoad == InitWith(LoadInputs)

NextLoad ==
    \/ ReadStep
    \/ \E tg \in FieldTargets \cup SliceTargets \cup StructTargets : CallLoad(tg)

SpecLoad == InitLoad /\ [][NextLoad]_vars

\* a parse of lines of typed values, then a typed read or a target bound
InitTyped == InitWith(TypedInputs)

NextTyped ==
    \/ ReadStep
    \/ \E key \in GetKeys : CallGet(key)
    \/ \E tg \in TypedTargets \cup ShapeTargets : CallLoad(tg)

SpecTyped == InitTyped /\ [][NextTyped]_vars

\* a parse of lines under subsections, then targets with a map bound to the store
InitMap == InitWith(MapInputs)

NextMap ==
    \/ ReadStep
    \/ \E tg \in RecordMapTargets \cup ScalarMapTargets : CallLoad(tg)

SpecMap == InitMap /\ [][NextMap]_vars

\* a parse of one line of header characters, first or continuing a value
InitHeader == InitWith(HeaderInputs)

NextHeader == ReadStep

SpecHeader == InitHeader /\ [][NextHeader]_vars

\* a parse of one line of key characters
InitKey == InitWith(KeyInputs)

NextKey == ReadStep

SpecKey == InitKey /\ [][NextKey]_vars

\* a parse of a file of headers, pairs, comments and continued values
InitFile == InitWith(FileInputs)

NextFile == ReadStep

SpecFile == InitFile /\ [][NextFile]_vars

\* before NewConfigFromString is called
InitStart ==
    /\ input = <<>>
    /\ p = NewParser(<<>>)
    /\ pc = "start"
    /\ ret = [cfg |-> NilConfig, err |-> NoErr]
    /\ log = <<>>
    /\ nOps = 0
    /\ last = NoCall

\* NewConfigFromString called on the lines of a file, up to p.Read()
CallParse(lines) ==
    /\ pc = "start"
    /\ input' = lines
    /\ p' = NewParser(lines)
    /\ pc' = "reading"
    /\ UNCHANGED <<ret, log, nOps, last>>

NextFileFair ==
    \/ \E lines \in PassInputs : CallParse(lines)
    \/ ReadStep

\* weak fairness of the loop of Parser.Read, WF_vars(ReadStep), with the
\* enabling condition of ReadStep written out: a turn of the loop can be taken
\* exactly when the parse is reading
ReadGoesOn == []<>(pc # "reading") \/ []<><<ReadStep>>_vars

\* the call of NewConfigFromString on a file, with the loop of Parser.Read
\* going on until it returns
SpecFileFair == InitStart /\ [][NextFileFair]_vars /\ ReadGoesOn

-----------------------------------------------------------------------------
(* Claims *)

\* the first n lines of the input
FirstLines(n) == SubSeq(input, 1, n)

\* C2: NewConfigFromString returns either a store and no error, after reading
\* every line, or no store and an error: the error is that of the first line,
\* in line order, that breaks the grammar (the lines before it parse without
\* error on their own), it carries that line and its number, and no line after
\* it has been read.
C2_AllOrNothing ==
    /\ pc = "ready" =>
          /\ ~ret.cfg.nil
          /\ ret.err = NoErr
          /\ p.lines = <<>>
          /\ p.lineNo = Len(input)
    /\ pc = "failed" =>
          /\ ret.cfg.nil
          /\ ret.err # NoErr
          /\ ret.err.LineNo \in 1..Len(input)
          /\ ret.err.Line = input[ret.err.LineNo]
          /\ p.lineNo = ret.err.LineNo
          /\ p.lines = SubSeq(input, ret.err.LineNo + 1, Len(input))
          /\ \A n \in 0..(ret.err.LineNo - 1) : NewConfigFromLines(FirstLines(n)).err = NoErr
          /\ NewConfigFromLines(FirstLines(ret.err.LineNo)) = ret

\* C2 witness: the parse failed on a line that follows a line with an
\* assignment and is followed by a line it never read
C2_Witness ==
    /\ pc = "failed"
    /\ ret.err.LineNo > 1
    /\ ret.err.LineNo < Len(input)
    /\ log # <<>>
    /\ ret.cfg.nil

\* the value a string lookup shows for an assigned value: nil shows as ""
Shown(value) == IF value.nil THEN <<>> ELSE value.str

\* the values of a sequence of assignments, as a string lookup shows them
ShownValues(es) == [i \in 1..Len(es) |-> Shown(es[i].value)]

\* what a lookup returns for the assignments es made to the key it addresses
ExpectedStrings(es) ==
    IF es = <<>> THEN [nil |-> TRUE, v |-> <<>>] ELSE [nil |-> FALSE, v |-> ShownValues(es)]

ExpectedString(es) ==
    IF es = <<>> THEN [str |-> <<>>, exists |-> FALSE]
    ELSE [str |-> Shown(es[Len(es)].value), exists |-> TRUE]

\* the value set an assignment under section sec and subsection sub belongs to:
\* the base scope, a section (named ignoring case) or a subsection of one
ScopeOf(sec, sub) ==
    IF sec = <<>> THEN <<"base">>
    ELSE IF sub = <<>> THEN <<"section", ToLower(sec)>>
    ELSE <<"subsection", ToLower(sec), sub>>

\* the components of a dotted lookup key: the first is the section, the last
\* the key, the ones between joined by "." the subsection
Components(key) ==
    LET c == Split(key, ".")
        n == Len(c) IN
    [sec |-> IF n = 1 THEN <<>> ELSE c[1],
     sub |-> IF n <= 2 THEN <<>> ELSE Join(SubSeq(c, 2, n - 1), "."),
     key |-> c[n]]

\* the assignments, in the order they were made, to the normalized key that
\* the lookup key addresses
AssignedTo(key) ==
    SelectSeq(log, LAMBDA e :
        /\ ScopeOf(e.sec, e.sub) = ScopeOf(Components(key).sec, Components(key).sub)
        /\ ToLower(e.key) = ToLower(Components(key).key))

\* C3: GetKeyValuesStrings returns exactly the values assigned to the key it
\* addresses, by parsed lines and by AddKeyValue calls, in the order they were
\* assigned (a value-less assignment shows as ""), and GetKeyValueAsString
\* returns the last of them; so an assignment only appends.
C3_AssignmentOrder ==
    last.op = "Lookup" =>
        /\ last.strings = ExpectedStrings(AssignedTo(last.key))
        /\ last.string = ExpectedString(AssignedTo(last.key))

\* C3 witness: a lookup of a key assigned three times with different values,
\* by a parsed line and by an AddKeyValue call that followed
C3_Witness ==
    /\ last.op = "Lookup"
    /\ Len(last.strings.v) >= 3
    /\ last.strings.v[1] # last.strings.v[Len(last.strings.v)]
    /\ AssignedTo(last.key)[1].lineNo > 0
    /\ AssignedTo(last.key)[Len(last.strings.v)].lineNo = 0

\* the assignments whose header and key have the names of the lookup key's
\* components: section and key ignoring case, subsection character for character
AssignedUnderNames(key) ==
    SelectSeq(log, LAMBDA e :
        /\ ToLower(e.sec) = ToLower(Components(key).sec)
        /\ e.sub = Components(key).sub
        /\ ToLower(e.key) = ToLower(Components(key).key))

\* C4 as stated: a lookup finds the values recorded under a header and key
\* exactly when the section names and the key names are equal ignoring case and
\* the subsection names are equal character for character.
C4_AsStated ==
    last.op = "Lookup" => last.strings = ExpectedStrings(AssignedUnderNames(last.key))

\* the same, except that a lookup key with an empty key component finds nothing
\* and one with an empty section component addresses the base scope whatever
\* its subsection component is
AssignedUnderNamesAmended(key) ==
    SelectSeq(log, LAMBDA e :
        /\ Components(key).key # <<>>
        /\ ToLower(e.sec) = ToLower(Components(key).sec)
        /\ Components(key).sec = <<>> \/ e.sub = Components(key).sub
        /\ ToLower(e.key) = ToLower(Components(key).key))

\* C4, amended: a lookup key of 1 component addresses a key of the base scope, of
\* 2 components section.key, of 3 section.subsection.key, of more the
\* subsection is the middle components joined by "."; the lookup finds the
\* values recorded under a header and key exactly when the key component is
\* not empty, the section names and the key names are equal ignoring case,
\* and either the subsection names are equal character for character or the
\* lookup's section component is empty.
C4_LookupResolution ==
    last.op = "Lookup" =>
        /\ last.strings = ExpectedStrings(AssignedUnderNamesAmended(last.key))
        /\ last.string = ExpectedString(AssignedUnderNamesAmended(last.key))

\* C4 witness: a lookup key of four components found the value recorded
\* under a header whose subsection is the two middle components joined by "."
\* and whose section and key differ from the lookup's in case
C4_Witness ==
    /\ last.op = "Lookup"
    /\ Len(Split(last.key, ".")) = 4
    /\ last.string.exists
    /\ \E i \in 1..Len(log) :
          /\ log[i].sub = Components(last.key).sub
          /\ log[i].sec # Components(last.key).sec
          /\ log[i].key # Components(last.key).key
          /\ last.string.str = Shown(log[i].value)

\* the text V of the value line "k=V" that is the one line of the input
V == SliceFrom(input[1], 2)

\* the input is one value line and its parse has ended
OneLineParsed == Len(input) = 1 /\ pc \in {"ready", "failed"}

\* the parse recorded the one assignment k = value
Recorded(value) ==
    /\ pc = "ready"
    /\ Len(log) = 1
    /\ log[1].key = <<"k">>
    /\ log[1].value = Ptr(value)

RECURSIVE TrimLeft(_)
TrimLeft(t) == IF t # <<>> /\ IsSpace(Head(t)) THEN TrimLeft(Tail(t)) ELSE t

RECURSIVE TrimRight(_)
TrimRight(t) ==
    IF t # <<>> /\ IsSpace(t[Len(t)]) THEN TrimRight(SubSeq(t, 1, Len(t) - 1)) ELSE t

\* t without its leading and its trailing whitespace
Trim(t) == TrimRight(TrimLeft(t))

\* the number of double quotes among the first n characters of t
QuotesBefore(t, n) == Cardinality({i \in 1..n : t[i] = DQ})

\* the positions of the comment characters of t that stand outside double quotes
CommentsOutside(t) ==
    {i \in 1..Len(t) : t[i] \in {";", "#"} /\ QuotesBefore(t, i) % 2 = 0}

\* t up to its first comment character outside double quotes
BeforeComment(t) ==
    IF CommentsOutside(t) = {} THEN t
    ELSE SubSeq(t, 1, (CHOOSE i \in CommentsOutside(t) : \A j \in CommentsOutside(t) : i <= j) - 1)

\* t without its double quotes
Unquoted(t) == SelectSeq(t, LAMBDA c : c # DQ)

\* no character of t is in S
Without(t, S) == \A i \in 1..Len(t) : t[i] \notin S

\* C5: in a value line without backslashes, the first ';' or '#' outside double
\* quotes ends the value, and everything from it to the end of the line is
\* discarded, while a ';' or '#' between double quotes is a character of the
\* value: the value recorded is the text before that comment character, trimmed
\* and without its quotes; a quote left open at the end of the line is an error.
C5_CommentChars ==
    (OneLineParsed /\ Without(V, {BS})) =>
        IF QuotesBefore(BeforeComment(V), Len(BeforeComment(V))) % 2 = 1
        THEN pc = "failed"
        ELSE Recorded(Unquoted(Trim(BeforeComment(V))))

\* C5 witness: a line with a comment character between quotes, which is in the
\* value, and another one after the closing quote, which ended it
C5_Witness ==
    /\ OneLineParsed
    /\ Without(V, {BS})
    /\ pc = "ready"
    /\ Len(BeforeComment(V)) < Len(V)
    /\ \E i \in 1..Len(log[1].value.str) : log[1].value.str[i] \in {";", "#"}

\* C6: for a value line whose text is unquoted and free of escapes and comment
\* characters, the value recorded is the text without its leading and trailing
\* whitespace, every whitespace run inside it kept as it is.
C6_UnquotedWhitespace ==
    (OneLineParsed /\ Without(V, {BS, DQ, ";", "#"})) => Recorded(Trim(V))

\* C6 witness: whitespace was trimmed at an end of the text, and a tab between
\* two letters was kept as a tab
C6_Witness ==
    /\ OneLineParsed
    /\ Without(V, {BS, DQ, ";", "#"})
    /\ pc = "ready"
    /\ Len(log[1].value.str) < Len(V)
    /\ \E i \in 2..(Len(log[1].value.str) - 1) : log[1].value.str[i] = TAB

\* the first line of the input ends in a backslash that continues its value:
\* before it the line has no other backslash, no comment character outside
\* quotes and no open quote
Continues ==
    /\ input # <<>>
    /\ V # <<>>
    /\ V[Len(V)] = BS
    /\ Without(SubSeq(V, 1, Len(V) - 1), {BS})
    /\ CommentsOutside(V) = {}
    /\ QuotesBefore(V, Len(V)) % 2 = 0

\* the first line without the backslash at its end
Uncontinued == SubSeq(input[1], 1, Len(input[1]) - 1)

\* the input with its first two lines made one, the backslash between them left out
Joined == <<Uncontinued \o input[2]>> \o SubSeq(input, 3, Len(input))

\* the text of line i of a chain: the line without the "k=" of the first line
\* and without the backslash that ends every line but the last
ChainPiece(i) ==
    SubSeq(input[i], IF i = 1 THEN 3 ELSE 1,
           IF i < Len(input) THEN Len(input[i]) - 1 ELSE Len(input[i]))

\* the lines of the input are texts of letters and whitespace, each but the last
\* followed by a backslash, so that every line is part of the one value
PlainChain ==
    /\ input # <<>>
    /\ \A i \in 1..Len(input) :
          /\ i < Len(input) => (input[i] # <<>> /\ input[i][Len(input[i])] = BS)
          /\ Without(ChainPiece(i), {BS, DQ, ";", "#"})

RECURSIVE ChainText(_)
\* the texts of the lines i, i + 1, ... of a plain chain, one after the other
ChainText(i) == IF i > Len(input) THEN <<>> ELSE ChainPiece(i) \o ChainText(i + 1)

\* C7: when a value line ends, outside quotes, in an unescaped backslash, the
\* next line is read as part of the same value and what its scan gives is
\* appended to the part already read: the outcome is that of the input with the
\* two lines made one; this chains over any number of such lines (a chain of
\* plain texts gives the texts joined and trimmed), and when the input ends
\* after such a line the value is what was read so far, without an error.
C7_Continuation ==
    /\ (pc \in {"ready", "failed"} /\ Continues) =>
          IF Len(input) = 1
          THEN ret = NewConfigFromLines(<<Uncontinued>>) /\ pc = "ready"
          ELSE /\ ret.cfg = NewConfigFromLines(Joined).cfg
               /\ (ret.err = NoErr) = (NewConfigFromLines(Joined).err = NoErr)
    /\ (pc \in {"ready", "failed"} /\ PlainChain) =>
          Recorded(Trim(ChainText(1)))

\* C7 witness: a chain of three lines gave one value, with the whitespace that
\* starts a continuation line inside it
C7_Witness ==
    /\ pc = "ready"
    /\ Continues
    /\ PlainChain
    /\ Len(input) = 3
    /\ Len(log) = 1
    /\ \E i \in 2..Len(log[1].value.str) : IsSpace(log[1].value.str[i])
    /\ p.maxDepth = 2

\* the value sequences of a store, by section, subsection and key
ValueSequences(cfg) ==
    {<<"", "", k, cfg.BaseValues[k].Value>> : k \in DOMAIN cfg.BaseValues}
    \cup UNION {{<<n, "", k, cfg.Sections[n].Values[k].Value>> :
                    k \in DOMAIN cfg.Sections[n].Values} : n \in DOMAIN cfg.Sections}
    \cup UNION {UNION {{<<n, m, k, cfg.Sections[n].SubSections[m].Values[k].Value>> :
                    k \in DOMAIN cfg.Sections[n].SubSections[m].Values} :
                    m \in DOMAIN cfg.Sections[n].SubSections} : n \in DOMAIN cfg.Sections}

\* C1: parsing the text Config.String returns for a parsed store succeeds and
\* gives a store in which every section, subsection and key has the value
\* sequence it has in the original store.
C1_RoundTrip ==
    last.op = "String" =>
        /\ last.again.err = NoErr
        /\ ~last.again.cfg.nil
        /\ ValueSequences(last.again.cfg.c) = ValueSequences(last.before)

\* the one field of the target that Load was called with
f == last.fields[1]

\* Load was called with a target of one field, which has a gcKey tag and a
\* gcRequired tag that is empty or a boolean
OneFieldBound ==
    /\ last.op = "Load"
    /\ Len(last.fields) = 1
    /\ f.gcKey # <<>>
    /\ f.gcRequired \in {<<>>, <<"t", "r", "u", "e">>, <<"f", "a", "l", "s", "e">>}

\* the field is required, by its gcRequired tag
IsRequired(fd) == fd.gcRequired = <<"t", "r", "u", "e">>

\* the values assigned to the path of the field, in file order
ValuesOf(fd) == [i \in 1..Len(AssignedTo(fd.gcKey)) |-> AssignedTo(fd.gcKey)[i].value]

\* Load returned a LoadError whose one entry is under the key, with this error
FailedWith(key, err) ==
    /\ last.out.kind = "LoadError"
    /\ DOMAIN last.out.errs = {key}
    /\ last.out.errs[key] = err

\* the default literal s read as a value of the scalar type t
DefaultAs(t, s) ==
    CASE t.kind = "string" -> Parsed(s)
      [] t.kind = "int" -> ParseInt(s)
      [] t.kind = "uint" -> ParseUint(s)
      [] t.kind = "bool" -> ParseBool(s)
      [] t.kind = "duration" -> ParseDuration(s)

\* C8: when Load binds a scalar field whose path has no value, then (a) if the
\* field is required Load returns a LoadError with an entry under the field's
\* path that says the field is required, and the field keeps its content;
\* (b) if it is not required and has a default, the field is set to the parsed
\* default (the default "5" gives the int 5), and when the default does not
\* parse as the field's type the field fails and keeps its content; (c) if it
\* has neither, the field keeps its content and no error is returned.
C8_ScalarMissing ==
    (OneFieldBound /\ f.type \in ScalarTypes /\ ValuesOf(f) = <<>>) =>
        IF IsRequired(f)
        THEN FailedWith(f.gcKey, ErrRequired) /\ last.after = last.before
        ELSE IF f.hasDefault
        THEN /\ IF DefaultAs(f.type, f.gcDefault).ok
                THEN /\ last.out = NoError
                     /\ last.after = <<DefaultAs(f.type, f.gcDefault).v>>
                ELSE /\ last.out.kind = "LoadError"
                     /\ DOMAIN last.out.errs = {f.gcKey}
                     /\ last.after = last.before
             /\ (f.type = IntType /\ f.gcDefault = <<"5">>) => last.after = <<5>>
        ELSE last.out = NoError /\ last.after = last.before

\* C8 witness: an int field that held 3, not required, with the default "5" and
\* a path without a value, holds 5 after Load
C8_Witness ==
    /\ OneFieldBound
    /\ f.type = IntType
    /\ ValuesOf(f) = <<>>
    /\ ~IsRequired(f)
    /\ f.hasDefault
    /\ last.before = <<3>>
    /\ last.after = <<5>>

\* an array element of type t can be read from the value v
Readable(t, v) == t.kind = "string" \/ (~v.nil /\ ParseInt(v.str).ok)

\* the array element of type t read from the value v
ReadAs(t, v) == IF t.kind = "string" THEN Shown(v) ELSE ParseInt(v.str).v

\* the number of values of the path of the field
k == Len(ValuesOf(f))

\* the values of the path that an array of length n is filled from: the last n
\* of them, or all of them when they are fewer
Kept(n) == SubSeq(ValuesOf(f), IF k > n THEN k - n + 1 ELSE 1, k)

\* C10: for an array field of length N bound to a path that has k >= 1 values
\* that its element type can read: if k >= N the array holds the last N values
\* in order; if k < N the first k slots hold the values in order and each
\* remaining slot holds the parsed default when the field has a default and is
\* not required, keeps its content when it has neither, and makes the field
\* fail when the field is required.
C10_FixedArray ==
    (/\ OneFieldBound
     /\ f.type \in ArrayTypes
     /\ k >= 1
     /\ \A i \in 1..Len(Kept(f.type.len)) : Readable(f.type.elem, Kept(f.type.len)[i])) =>
        /\ \A i \in 1..Len(Kept(f.type.len)) :
              last.after[1][i] = ReadAs(f.type.elem, Kept(f.type.len)[i])
        /\ k >= f.type.len => last.out = NoError
        /\ (k < f.type.len /\ IsRequired(f)) => FailedWith(f.gcKey, ErrRequired)
        /\ (k < f.type.len /\ ~IsRequired(f) /\ ~f.hasDefault) =>
              /\ last.out = NoError
              /\ \A i \in (k + 1)..f.type.len : last.after[1][i] = last.before[1][i]
        /\ (k < f.type.len /\ ~IsRequired(f) /\ f.hasDefault
                /\ DefaultAs(f.type.elem, f.gcDefault).ok) =>
              /\ last.out = NoError
              /\ \A i \in (k + 1)..f.type.len :
                    last.after[1][i] = DefaultAs(f.type.elem, f.gcDefault).v

\* C10 witness: an array of two strings bound to a path of three values, the
\* first of which differs from the other two, holds the last two
C10_Witness ==
    /\ OneFieldBound
    /\ f.type = ArrayType(2, StringType)
    /\ k = 3
    /\ Shown(ValuesOf(f)[1]) \notin {Shown(ValuesOf(f)[2]), Shown(ValuesOf(f)[3])}
    /\ last.after[1] = <<Shown(ValuesOf(f)[2]), Shown(ValuesOf(f)[3])>>
    /\ last.out = NoError

\* field i of the target has a gcKey tag and can be set
Tagged(i) == last.fields[i].CanSet /\ last.fields[i].gcKey # <<>>

\* what Load does with field i bound on its own to the same store
Alone(i) == Load(last.store, <<last.fields[i]>>, <<last.before[i]>>, <<last.orders[i]>>)

\* C9: Load attempts every tagged field of the target in turn: it returns nil or
\* an error map; for every field whose binding fails the map has an entry under
\* the field's path, every field whose binding succeeds is populated as it is
\* when bound on its own, even when an earlier field failed, and Load returns
\* an error if and only if the map is not empty.
C9_Aggregated ==
    last.op = "Load" =>
        /\ last.out.kind \in {"nil", "LoadError"}
        /\ \A i \in 1..Len(last.fields) :
              Tagged(i) =>
                 IF Alone(i).out = NoError
                 THEN last.after[i] = Alone(i).target[1]
                 ELSE /\ last.out.kind = "LoadError"
                      /\ last.fields[i].gcKey \in DOMAIN last.out.errs
        /\ last.out.kind = "LoadError" => DOMAIN last.out.errs # {}

\* every value of the path is a string that the element type t can read
AllReadable(t, values) ==
    \A i \in 1..Len(values) : ~values[i].nil /\ Readable(t, values[i])

\* the values read as elements of type t, in their order
AllReadAs(t, values) == [i \in 1..Len(values) |-> ReadAs(t, values[i])]

\* C11: after Load, whatever a slice field held before the call: when its path
\* has values that the element type can read, the field holds exactly these
\* values, read as elements, in file order; when the path has no value and the
\* field has a default that the element type can read, the field holds exactly
\* one element, the parsed default; when the path has no value and the field
\* has no default and is not required, the field is empty.
C11_Slice ==
    (OneFieldBound /\ f.type \in SliceTypes) =>
        IF k >= 1
        THEN AllReadable(f.type.elem, ValuesOf(f)) =>
                /\ last.out = NoError
                /\ last.after[1] = AllReadAs(f.type.elem, ValuesOf(f))
        ELSE IF ~IsRequired(f) /\ f.hasDefault
        THEN Readable(f.type.elem, Ptr(f.gcDefault)) =>
                /\ last.out = NoError
                /\ last.after[1] = <<ReadAs(f.type.elem, Ptr(f.gcDefault))>>
        ELSE ~IsRequired(f) => last.out = NoError /\ last.after[1] = <<>>

\* the names of the subsections of a section (named ignoring case) that a key
\* was assigned under
SubsOf(sec) ==
    {log[i].sub : i \in {j \in DOMAIN log :
                            ToLower(log[j].sec) = ToLower(sec) /\ log[j].sub # <<>>}}

\* some key was assigned under the section or under a subsection of it
InStore(sec) == \E i \in DOMAIN log : ToLower(log[i].sec) = ToLower(sec)

\* the values assigned to a key of a subsection, in file order
ValuesIn(sec, sub, key) ==
    [i \in 1..Len(AssignedTo(sec \o <<".">> \o sub \o <<".">> \o key)) |->
        AssignedTo(sec \o <<".">> \o sub \o <<".">> \o key)[i].value]

\* the scalar rule for a string or an int: the last value when there are values;
\* else a failure when required, the parsed default when there is one, and the
\* zero value when there is none; ok tells whether the rule gives a value
ScalarRule(t, required, hasDefault, default, values) ==
    IF values # <<>>
    THEN IF Readable(t, values[Len(values)])
         THEN Parsed(ReadAs(t, values[Len(values)]))
         ELSE NotParsed(Zero(t))
    ELSE IF required THEN NotParsed(Zero(t))
    ELSE IF hasDefault THEN DefaultAs(t, default)
    ELSE Parsed(Zero(t))

\* the scalar rule for a field of a record, under a subsection of a section
FieldRule(fd, sec, sub) ==
    ScalarRule(fd.type, IsRequired(fd), fd.hasDefault, fd.gcDefault,
               ValuesIn(sec, sub, fd.gcKey))

\* the section of the path of a map field: what stands before its first dot
PathSection(path) == Split(path, ".")[1]

\* the key of a path of the form section.*.key
PathKey(path) == Split(path, ".")[3]

\* Load was called with one field, a map keyed by strings of the records
RecordMapBound ==
    /\ OneFieldBound
    /\ f.type.kind = "map"
    /\ f.type.key = StringType
    /\ f.type.elem.kind = "struct"

\* C12: when a map-of-record field with a path of the form section or
\* section.* is bound, the section is in the store, and the scalar rule gives
\* every field of the record a value under every subsection: Load returns nil,
\* the keys of the map are exactly the subsection names of the section, and
\* the record under a subsection name holds what the scalar rule gives its
\* fields from the keys of that subsection alone.
C12_RecordMap ==
    (/\ RecordMapBound
     /\ Split(f.gcKey, ".") \in {<<PathSection(f.gcKey)>>, <<PathSection(f.gcKey), <<"*">>>>}
     /\ InStore(PathSection(f.gcKey))
     /\ \A sub \in SubsOf(PathSection(f.gcKey)) : \A j \in DOMAIN f.type.elem.fields :
            FieldRule(f.type.elem.fields[j], PathSection(f.gcKey), sub).ok) =>
        /\ last.out = NoError
        /\ DOMAIN last.after[1] = SubsOf(PathSection(f.gcKey))
        /\ \A sub \in SubsOf(PathSection(f.gcKey)) :
              last.after[1][sub] =
                  [j \in DOMAIN f.type.elem.fields |->
                      FieldRule(f.type.elem.fields[j], PathSection(f.gcKey), sub).v]

\* Load was called with one field, a map keyed by strings of strings or of ints
ScalarMapBound ==
    /\ OneFieldBound
    /\ f.type.kind = "map"
    /\ f.type.key = StringType
    /\ f.type.elem \in {StringType, IntType}

\* the scalar rule for the entry of a map of scalars, under a subsection
EntryRule(sub) ==
    ScalarRule(f.type.elem, IsRequired(f), f.hasDefault, f.gcDefault,
               ValuesIn(PathSection(f.gcKey), sub, PathKey(f.gcKey)))

\* C13: when a map-of-scalar field with a path of the form section.*.key is
\* bound, the section is in the store, and the scalar rule gives a value under
\* every subsection: Load returns nil, the map has one entry per subsection of
\* the section and no other, and the entry under a subsection name is the last
\* value of the key in that subsection, the parsed default when the subsection
\* has no such key and the field has a default, and the zero value when it has
\* no such key and the field has no default.
C13_ScalarMap ==
    (/\ ScalarMapBound
     /\ Len(Split(f.gcKey, ".")) = 3
     /\ Split(f.gcKey, ".")[2] = <<"*">>
     /\ InStore(PathSection(f.gcKey))
     /\ \A sub \in SubsOf(PathSection(f.gcKey)) : EntryRule(sub).ok) =>
        /\ last.out = NoError
        /\ DOMAIN last.after[1] = SubsOf(PathSection(f.gcKey))
        /\ \A sub \in SubsOf(PathSection(f.gcKey)) : last.after[1][sub] = EntryRule(sub).v

\* the boolean coercion of a stored value: absent or empty gives false, an
\* integer literal gives true if and only if it is not zero, then the words
\* true and yes give true and the words false and no give false, whatever
\* their case; ok tells whether the value has a coercion
BoolCoercion(value) ==
    IF value.nil \/ value.str = <<>> THEN Parsed(FALSE)
    ELSE IF ParseInt(value.str).ok THEN Parsed(ParseInt(value.str).v # 0)
    ELSE IF ToLower(value.str) \in {<<"t", "r", "u", "e">>, <<"y", "e", "s">>} THEN Parsed(TRUE)
    ELSE IF ToLower(value.str) \in {<<"f", "a", "l", "s", "e">>, <<"n", "o">>} THEN Parsed(FALSE)
    ELSE NotParsed(FALSE)

\* the values assigned to the key that the typed getters were called with
Got == [i \in 1..Len(AssignedTo(last.key)) |-> AssignedTo(last.key)[i].value]

\* C14: for a key whose values all have a boolean coercion, GetKeyValuesBools
\* returns the coercions of the values and GetKeyValueAsBool that of the last
\* value, without an error, and a bool field bound to the key holds the
\* coercion of the last value; for a key with one value that has no coercion
\* each of the three gives an error.
C14_BoolCoercion ==
    /\ (last.op = "Get" /\ Got # <<>> /\ \A i \in DOMAIN Got : BoolCoercion(Got[i]).ok) =>
            /\ last.bools = [out |-> [i \in DOMAIN Got |-> BoolCoercion(Got[i]).v], err |-> ""]
            /\ last.bool = [v |-> BoolCoercion(Got[Len(Got)]).v, exists |-> TRUE, err |-> ""]
    /\ (last.op = "Get" /\ Len(Got) = 1 /\ ~BoolCoercion(Got[1]).ok) =>
            last.bools.err # "" /\ last.bool.err # ""
    /\ (OneFieldBound /\ f.type = BoolType /\ k >= 1
            /\ \A i \in 1..k : BoolCoercion(ValuesOf(f)[i]).ok) =>
            last.out = NoError /\ last.after = <<BoolCoercion(ValuesOf(f)[k]).v>>
    /\ (OneFieldBound /\ f.type = BoolType /\ k = 1 /\ ~BoolCoercion(ValuesOf(f)[1]).ok) =>
            last.out.kind = "LoadError"

\* what a call of Load left in the target and whether it returned nil, an
\* error or panicked
Outcome(r) == <<r.target, r.out.kind>>

\* the same of the call that the state records
LastOutcome == <<last.after, last.out.kind>>

\* the store with the one key k in the base scope, holding the one value
OneValue(value) ==
    [NewConfig EXCEPT !.BaseValues = (<<"k">> :> [Name |-> <<"k">>, OrigCaseName |-> <<"k">>,
                                                  Value |-> <<value>>])]

\* C17: GetKeyValueAsInt and GetKeyValueAsBool return for a key, and Load
\* leaves in a scalar field bound to a key, what they do for a store where the
\* key has its last value only.
C17_LastValueOnly ==
    /\ (last.op = "Get" /\ last.key = <<"k">> /\ Got # <<>>) =>
            /\ last.int = GetKeyValueAsInt(OneValue(Got[Len(Got)]), <<"k">>)
            /\ last.bool = GetKeyValueAsBool(OneValue(Got[Len(Got)]), <<"k">>)
    /\ (OneFieldBound /\ f.type \in ScalarTypes /\ f.gcKey = <<"k">> /\ k >= 1) =>
            LastOutcome = Outcome(Load(OneValue(ValuesOf(f)[k]), last.fields, last.before,
                                         last.orders))

\* the field with the literal s as its default, not required, under a path
\* that has no value
WithDefault(fd, s) == Field(fd.type, <<"x">>, Policy(<<>>, TRUE, s), TRUE)

\* C18: when a scalar field that is not required is bound to a path whose only
\* value is s, Load leaves in the field and returns (nil or an error) what it
\* does for the same field with the default s bound to a path that has no
\* value.
C18_DefaultAsFound ==
    (/\ OneFieldBound
     /\ f.type \in ScalarTypes
     /\ ~IsRequired(f)
     /\ k = 1
     /\ ~ValuesOf(f)[1].nil) =>
        LastOutcome = Outcome(Load(last.store, <<WithDefault(f, ValuesOf(f)[1].str)>>,
                                     last.before, last.orders))

\* C15: Load and the lookups leave the store as it was, whether they succeed,
\* fail or miss; and a lookup of a key that nothing was assigned to finds no
\* entry: the raw lookup returns nil, GetKeyValuesStrings, GetKeyValuesInts
\* and GetKeyValuesBools return nil, and GetKeyValueAsString, GetKeyValueAsInt
\* and GetKeyValueAsBool report exists = false, with a nil error.
C15_ReadsDoNotWrite ==
    /\ last.op \in {"Get", "Load"} => store = last.store
    /\ (last.op = "Get" /\ AssignedTo(last.key) = <<>>) =>
            /\ ~last.raw.found
            /\ last.strings.nil
            /\ last.string = [str |-> <<>>, exists |-> FALSE]
            /\ last.ints = NoValues
            /\ last.bools = NoValues
            /\ last.int = NoLast(0)
            /\ last.bool = NoLast(FALSE)

\* a lookup missed in a section that exists, under a subsection that does not
C15_Missed ==
    /\ last.op = "Get"
    /\ last.key = <<"s", ".", "y", ".", "k">>
    /\ <<"s">> \in DOMAIN store.Sections
    /\ <<"x">> \in DOMAIN store.Sections[<<"s">>].SubSections
    /\ AssignedTo(last.key) = <<>>
    /\ ~last.raw.found

\* C16: the ParseError that a parse returns carries the number of the line on
\* which the parse failed (the lines before it parse without an error and the
\* lines up to it give this error), counted from 1, the text of that line, and
\* an offset between 1 and the length of that line.
C16_Positioned ==
    pc = "failed" =>
        /\ ret.err.LineNo \in 1..Len(input)
        /\ ret.err.Line = input[ret.err.LineNo]
        /\ ret.err.CharPos \in 1..Len(ret.err.Line)
        /\ NewConfigFromLines(FirstLines(ret.err.LineNo - 1)).err = NoErr
        /\ NewConfigFromLines(FirstLines(ret.err.LineNo)).err = ret.err

\* a parse failed on a line that continues a value, past its first character
C16_Continued ==
    /\ pc = "failed"
    /\ Len(input) = 2
    /\ input[1] = ValueLine(<<BS>>)
    /\ ret.err.LineNo = 2
    /\ ret.err.CharPos > 1

\* the line starts a section header: its first character that is not
\* whitespace is '['
StartsHeader(line) ==
    \E i \in DOMAIN line : line[i] = "[" /\ \A j \in 1..(i - 1) : IsSpace(line[j])

\* C20: when the first line of the input starts a section header and has no
\* ']', with or without a quoted subsection, the parse fails.
C20_HeaderClosed ==
    (/\ pc \in {"ready", "failed"}
     /\ input # <<>>
     /\ StartsHeader(input[1])
     /\ \A i \in DOMAIN input[1] : input[1][i] # "]") =>
        pc = "failed"

\* C19: for an array field of length N bound to a path that has no entry, Load
\* does not panic and handles every slot as a scalar without a value: the
\* field fails with the 'required' error when it is required, every slot
\* keeps its content when the field has no default, and every slot holds the
\* parsed default when it has one.
C19_EmptyArray ==
    (/\ OneFieldBound
     /\ f.type \in ArrayTypes
     /\ k = 0) =>
        /\ last.out.kind # "panic"
        /\ IsRequired(f) => FailedWith(f.gcKey, ErrRequired)
        /\ (~IsRequired(f) /\ ~f.hasDefault) =>
              last.out = NoError /\ last.after = last.before
        /\ (~IsRequired(f) /\ f.hasDefault /\ DefaultAs(f.type.elem, f.gcDefault).ok) =>
              /\ last.out = NoError
              /\ \A i \in 1..f.type.len :
                    last.after[1][i] = DefaultAs(f.type.elem, f.gcDefault).v

\* the position of the first ']' of a line, 0 when it has none
Closing(line) ==
    IF \E i \in DOMAIN line : line[i] = "]"
    THEN CHOOSE i \in DOMAIN line : line[i] = "]" /\ \A j \in 1..(i - 1) : line[j] # "]"
    ELSE 0

\* a line of the file inputs that is a header followed by a pair
IsHeaderPair(line) ==
    /\ StartsHeader(line)
    /\ Closing(line) \in 1..(Len(line) - 1)

\* the line i of the input continues the value of the line before it, which
\* ends in a backslash (in the file inputs no line ends in two of them)
ContinuesLine(lines, i) ==
    i > 1 /\ lines[i - 1] # <<>> /\ lines[i - 1][Len(lines[i - 1])] = BS

RECURSIVE PairsBelowFrom(_, _)
\* the lines from the i-th on, with every pair that follows a header on its
\* line moved to a line of its own below the header
PairsBelowFrom(lines, i) ==
    IF i > Len(lines) THEN <<>>
    ELSE IF IsHeaderPair(lines[i]) /\ ~ContinuesLine(lines, i)
    THEN <<SubSeq(lines[i], 1, Closing(lines[i])),
           SubSeq(lines[i], Closing(lines[i]) + 1, Len(lines[i]))>>
         \o PairsBelowFrom(lines, i + 1)
    ELSE <<lines[i]>> \o PairsBelowFrom(lines, i + 1)

PairsBelow(lines) == PairsBelowFrom(lines, 1)

\* the assignments without the numbers of their lines
Unnumbered(es) ==
    [i \in 1..Len(es) |-> [sec |-> es[i].sec, sub |-> es[i].sub, key |-> es[i].key,
                           value |-> es[i].value]]

\* C21: a parse of lines where key-value pairs follow headers, with or without
\* a subsection, on the line of the header returns what the parse of the same
\* lines with each such pair on a line of its own below its header returns:
\* the same store, from the same assignments, or an error in both cases.
C21_HeaderLinePair ==
    pc \in {"ready", "failed"} =>
        /\ ret.cfg = NewConfigFromLines(PairsBelow(input)).cfg
        /\ (ret.err = NoErr) = (NewConfigFromLines(PairsBelow(input)).err = NoErr)
        /\ Unnumbered(log) = Unnumbered(Read(NewParser(PairsBelow(input))).p.assigned)

\* the key grammar [A-Za-z][A-Za-z0-9-]*
IsKey(key) ==
    /\ key # <<>>
    /\ key[1] \in UpperLetters \cup LowerLetters
    /\ \A i \in 2..Len(key) :
          key[i] \in UpperLetters \cup LowerLetters \cup {"-"} \/ IsDigits(<<key[i]>>)

\* the key part of a key line: the text before its first '=', or all of it
\* when it has none, without the whitespace around it
KeyPart(line) ==
    IF \E i \in DOMAIN line : line[i] = "="
    THEN Trim(SubSeq(line, 1,
              (CHOOSE i \in DOMAIN line : line[i] = "=" /\ \A j \in 1..(i - 1) : line[j] # "=") - 1))
    ELSE Trim(line)

\* C22: every key that the parser records matches [A-Za-z][A-Za-z0-9-]*, and
\* the parse of a line that is not blank and whose key part does not match
\* (empty before the '=', whitespace inside, another first or later character)
\* fails and records nothing.
C22_KeyGrammar ==
    /\ \A i \in DOMAIN log : IsKey(log[i].key)
    /\ (OneLineParsed /\ Trim(input[1]) # <<>> /\ ~IsKey(KeyPart(input[1]))) =>
            pc = "failed" /\ log = <<>>

\* the characters that a backslash may stand before in a value, and what the
\* two characters yield
Escapable == {DQ, "t", "n", BS}
Yields(c) == CASE c = DQ -> DQ [] c = "t" -> TAB [] c = "n" -> NL [] c = BS -> BS

\* the position of the first backslash of t, 0 when it has none
FirstEscape(t) ==
    IF \E i \in DOMAIN t : t[i] = BS
    THEN CHOOSE i \in DOMAIN t : t[i] = BS /\ \A j \in 1..(i - 1) : t[j] # BS
    ELSE 0

\* the text V has a first backslash, with a character after it on the line and
\* no comment character before it
EscapeIn(t) ==
    /\ FirstEscape(t) \in 1..(Len(t) - 1)
    /\ Without(SubSeq(t, 1, FirstEscape(t)), {";", "#"})

\* C23: in a value line whose first backslash has no comment character before
\* it: when the character after the backslash is not one of '"', 't', 'n' and
\* '\' (it is whitespace, ';' or '#'), the parse fails, inside quotes and
\* outside them; when it is one of the four and ends the text, the value
\* recorded is the text before the backslash followed by the double quote, tab,
\* newline or backslash that the escape yields, and the same between quotes.
C23_Escapes ==
    /\ (OneLineParsed /\ EscapeIn(V) /\ V[FirstEscape(V) + 1] \notin Escapable) =>
            pc = "failed"
    /\ (/\ OneLineParsed
        /\ EscapeIn(V)
        /\ V[FirstEscape(V) + 1] \in Escapable
        /\ FirstEscape(V) + 1 = Len(V)
        /\ Without(SubSeq(V, 1, FirstEscape(V) - 1), {DQ})) =>
            Recorded(Append(TrimLeft(SubSeq(V, 1, FirstEscape(V) - 1)), Yields(V[Len(V)])))
    /\ (/\ OneLineParsed
        /\ Len(V) >= 4
        /\ V[1] = DQ
        /\ V[Len(V)] = DQ
        /\ FirstEscape(V) = Len(V) - 2
        /\ V[Len(V) - 1] \in Escapable
        /\ Without(SubSeq(V, 2, Len(V) - 3), {DQ, ";", "#"})) =>
            Recorded(Append(SubSeq(V, 2, Len(V) - 3), Yields(V[Len(V) - 1])))

\* the position of the first character of a line that is one of S, and the
\* position after the end of the line when it has none
FirstOfIn(line, S) ==
    IF \E i \in DOMAIN line : line[i] \in S
    THEN CHOOSE i \in DOMAIN line : line[i] \in S /\ \A j \in 1..(i - 1) : line[j] \notin S
    ELSE Len(line) + 1

\* the section that a header line of the file inputs names: what stands
\* between its '[' and its quote or ']', without whitespace
SectionNamed(line) ==
    SelectSeq(SubSeq(line, FirstOfIn(line, {"["}) + 1, FirstOfIn(line, {DQ, "]"}) - 1),
              LAMBDA c : ~IsSpace(c))

\* the text after the first double quote of a line
AfterQuote(line) == SubSeq(line, FirstOfIn(line, {DQ}) + 1, Len(line))

\* the subsection that a header line of the file inputs names: what stands
\* between its quotes, empty when it has none
SubSectionNamed(line) ==
    SubSeq(AfterQuote(line), 1, FirstOfIn(AfterQuote(line), {DQ}) - 1)

\* line i of the input is a section header that the parser dispatches: it
\* starts a header and does not continue the value of the line before
HeaderAt(i) == StartsHeader(input[i]) /\ ~ContinuesLine(input, i)

\* the last header among the first n lines of the input, 0 when there is none
LastHeader(n) ==
    IF \E i \in 1..n : HeaderAt(i)
    THEN CHOOSE i \in 1..n : HeaderAt(i) /\ \A j \in (i + 1)..n : ~HeaderAt(j)
    ELSE 0

\* the section and the subsection in force at line n
SectionAt(n) == IF LastHeader(n) = 0 THEN <<>> ELSE SectionNamed(input[LastHeader(n)])
SubSectionAt(n) == IF LastHeader(n) = 0 THEN <<>> ELSE SubSectionNamed(input[LastHeader(n)])

RECURSIVE StoreUnder(_)
\* the store that holds the first n assignments of the parse, each under the
\* section and subsection in force at its line
StoreUnder(n) ==
    IF n = 0 THEN NewConfig
    ELSE AddKeyValue(StoreUnder(n - 1), SectionAt(log[n].lineNo),
                     SubSectionAt(log[n].lineNo), log[n].key, log[n].value)

\* C24: every assignment of the parse is made under the section and the
\* subsection that the most recent header dispatched before it names, under
\* the base scope when there is none, and the store returned holds it there: a
\* header replaces both names, one without a subsection leaves the subsection
\* empty, and comments, blank lines and key lines change neither.
C24_SectionState ==
    /\ \A i \in DOMAIN log :
          /\ log[i].sec = SectionAt(log[i].lineNo)
          /\ log[i].sub = SubSectionAt(log[i].lineNo)
    /\ pc = "ready" => store = StoreUnder(Len(log))

\* a key line recorded under a section without a subsection, after a header
\* with a subsection that the header of the section replaced
C24_Replaced ==
    /\ pc = "ready"
    /\ Len(input) = 3
    /\ SubSectionNamed(input[1]) # <<>>
    /\ input[2] = <<"[", "s", "]">>
    /\ Len(log) = 1
    /\ log[1].lineNo = 3
    /\ log[1].sec = <<"s">>
    /\ log[1].sub = <<>>

\* the store that the assignments of the log were made to: the Parser's while
\* it reads, then the one that was returned
Current == IF pc = "reading" THEN p.Config ELSE store

\* the assignments made to a lower-case key of a value set
AssignedIn(scope, lcKey) ==
    SelectSeq(log, LAMBDA e : ScopeOf(e.sec, e.sub) = scope /\ ToLower(e.key) = lcKey)

\* the assignments made under a section, to its value set or to one of its
\* subsections
AssignedUnder(slc) == SelectSeq(log, LAMBDA e : e.sec # <<>> /\ ToLower(e.sec) = slc)

\* the invariants of a value set vs at a scope
EntriesKept(scope, vs) ==
    /\ \A k1 \in DOMAIN vs, k2 \in DOMAIN vs : ToLower(k1) = ToLower(k2) => k1 = k2
    /\ \A key \in DOMAIN vs :
          /\ key = ToLower(key)
          /\ vs[key].Name = key
          /\ Len(vs[key].Value) >= 1
          /\ Len(vs[key].Value) = Len(AssignedIn(scope, key))
          /\ vs[key].OrigCaseName = AssignedIn(scope, key)[1].key

\* the invariants of the value sets of a store
ValueSetsKept(cfg) ==
    /\ EntriesKept(<<"base">>, cfg.BaseValues)
    /\ \A n \in DOMAIN cfg.Sections :
          /\ EntriesKept(<<"section", n>>, cfg.Sections[n].Values)
          /\ \A ss \in DOMAIN cfg.Sections[n].SubSections :
                EntriesKept(<<"subsection", n, ss>>, cfg.Sections[n].SubSections[ss].Values)

\* the sections of a store are under their lower-case names
SectionsKept(cfg) ==
    \A n \in DOMAIN cfg.Sections : n = ToLower(n) /\ cfg.Sections[n].Name = n

\* the first header of the input that names the section, 0 when none does
\* (every line of these inputs is dispatched)
FirstHeaderOf(slc) ==
    IF \E i \in DOMAIN input : StartsHeader(input[i]) /\ ToLower(SectionNamed(input[i])) = slc
    THEN CHOOSE i \in DOMAIN input :
            /\ StartsHeader(input[i]) /\ ToLower(SectionNamed(input[i])) = slc
            /\ \A j \in 1..(i - 1) :
                  ~(StartsHeader(input[j]) /\ ToLower(SectionNamed(input[j])) = slc)
    ELSE 0

\* C25 as stated: the invariants of the value sets, and each section is under
\* its lower-case name with the spelling of its first occurrence, in a header
\* of the input or, when no header names it, in an AddKeyValue call.
C25_AsStated ==
    pc # "failed" =>
        /\ ValueSetsKept(Current)
        /\ SectionsKept(Current)
        /\ \A n \in DOMAIN Current.Sections :
              Current.Sections[n].OrigCaseName =
                  IF FirstHeaderOf(n) # 0 THEN SectionNamed(input[FirstHeaderOf(n)])
                  ELSE AssignedUnder(n)[1].sec

\* C25: after any parsed lines and AddKeyValue calls, in every value set each
\* entry is under the lower-case form of its key, no two entries share a
\* lower-case key, each entry has at least one value, one for each assignment
\* to the key, and the name of the first of these assignments; each section is
\* under its lower-case name and has the spelling of the first assignment made
\* under it.
C25_StoreInvariants ==
    pc # "failed" =>
        /\ ValueSetsKept(Current)
        /\ SectionsKept(Current)
        /\ \A n \in DOMAIN Current.Sections :
              /\ AssignedUnder(n) # <<>>
              /\ Current.Sections[n].OrigCaseName = AssignedUnder(n)[1].sec

\* an entry of the section S that a parsed line created as k and an
\* AddKeyValue call for the section s and the key K appended to
C25_Appended ==
    /\ pc = "ready"
    /\ <<"s">> \in DOMAIN store.Sections
    /\ store.Sections[<<"s">>].OrigCaseName = <<"S">>
    /\ <<"k">> \in DOMAIN store.Sections[<<"s">>].Values
    /\ store.Sections[<<"s">>].Values[<<"k">>].OrigCaseName = <<"k">>
    /\ Len(AssignedIn(<<"section", <<"s">>>>, <<"k">>)) = 2
    /\ AssignedIn(<<"section", <<"s">>>>, <<"k">>)[2].key = <<"K">>
    /\ AssignedIn(<<"section", <<"s">>>>, <<"k">>)[2].sec = <<"s">>

\* the Reader has given the first lineNo lines of the input, each once and in
\* order, and holds the rest
ReadInOrder ==
    /\ p.lineNo \in 0..Len(input)
    /\ p.lines = SubSeq(input, p.lineNo + 1, Len(input))
    /\ p.lineNo > 0 => p.curLine = input[p.lineNo]

\* a turn of the loop of Parser.Read dispatches the line after the last line
\* read so far, which no turn or continuation has read, and reads it and the
\* lines that continue its value; at most one assignment comes of it, at the
\* last of these lines
ForwardTurn ==
    (pc = "reading" /\ p.lines # <<>>) =>
        /\ p'.lineNo > p.lineNo
        /\ \A i \in (p.lineNo + 2)..p'.lineNo : ContinuesLine(input, i)
        /\ Len(log') <= Len(log) + 1
        /\ Len(log') = Len(log) + 1 => log'[Len(log')].lineNo = p'.lineNo

\* C26: the parse of a finite input ends, with a store or an error; every line
\* is read once and in the order of the input; every turn of the loop
\* dispatches a line that was not read before, so that a line read as the
\* continuation of a value is never dispatched; and the continuation recursion
\* is never deeper than the input has lines.
C26_SinglePass ==
    /\ [](ReadInOrder /\ p.maxDepth <= Len(input) /\ (pc = "ready" => p.lines = <<>>))
    /\ [][ForwardTurn]_vars
    /\ (pc = "reading") ~> (pc \in {"ready", "failed"})

\* a parse ended after a value that two lines continued, the last line of
\* which starts as a header does
C26_Continued ==
    /\ pc = "ready"
    /\ Len(input) = 3
    /\ p.maxDepth = 2
    /\ StartsHeader(input[3])
    /\ Len(log) = 1
    /\ log[1].lineNo = 3

====
